---- MODULE Spec2Model ----
(***************************************************************************)
(* Reverse-mode differentiation of a dataflow graph (gradient_ops), the    *)
(* numeric operator semantics it relies on (dtype coercion, Gemm) and the  *)
(* loop gradient construction, modelled as a state machine over the graph. *)
(***************************************************************************)
EXTENDS Integers, Sequences, FiniteSets, TLC

VARIABLES
    values,     \* the Values of all graphs, by handle (index); handle 0 is nullptr
    nodes,      \* the Nodes of all graphs, in order of creation
    graphs,     \* per Graph: its name and designated input/output value lists
    id_,        \* GradientOpContext::id_, the process-wide retain counter
    fatal,      \* "" or the message of the CHECK that aborted the process
    setgrads,   \* history: the SetGrad calls made so far
    retains,    \* history: the x(i)/y(i) requests made so far
    calls,      \* history: the gradient rules the dispatch has invoked
    pass,       \* the caller's pass: its phase and its retain_in_stack flag
    num         \* the numeric layer: operands and results of the executed operator

vars == <<values, nodes, graphs, id_, fatal, setgrads, retains, calls, pass, num>>

(***************************************************************************)
(* Bounds of the model.                                                    *)
(***************************************************************************)
MaxNodes == 2

IntMax == 2147483647

NullV == 0

Range(s) == {s[i] : i \in DOMAIN s}

(***************************************************************************)
(* The state the graph-mutating code works on, as one record, so that a    *)
(* handler's sequence of mutations is a composition of operators.          *)
(***************************************************************************)
State ==
    [values |-> values, nodes |-> nodes, graphs |-> graphs, id_ |-> id_,
     fatal |-> fatal, setgrads |-> setgrads, retains |-> retains, calls |-> calls]

\* CHECK(cond) << msg: the first failed CHECK aborts; nothing runs after it.
Check(S, cond, msg) ==
    IF S.fatal = "" /\ ~cond THEN [S EXCEPT !.fatal = msg] ELSE S

NoAttr == [none |-> TRUE]

\* Graph::AddValue: a fresh Value owned by graph g; its handle is returned.
AddValue(S, g, kind, dtype) ==
    IF S.fatal # "" THEN S
    ELSE [S EXCEPT !.values = Append(@,
            [g |-> g, kind |-> kind, dtype |-> dtype, grad |-> NullV])]

\* Graph::AddNode: a fresh live Node of graph g.
AddNode(S, g, op, inputs, outputs, name, id, attr) ==
    IF S.fatal # "" THEN S
    ELSE [S EXCEPT !.nodes = Append(@,
            [g |-> g, op |-> op, inputs |-> inputs, outputs |-> outputs,
             name |-> name, id |-> id, attr |-> attr, live |-> TRUE])]

\* Value::producer: the node that writes v, 0 when v has none.
Producer(S, v) ==
    IF \E n \in DOMAIN S.nodes : v \in Range(S.nodes[n].outputs)
    THEN CHOOSE n \in DOMAIN S.nodes : v \in Range(S.nodes[n].outputs)
    ELSE 0

\* Value::grad / Value::set_grad.
Grad(S, v) == S.values[v].grad

SetGradOf(S, v, g) ==
    IF S.fatal # "" THEN S ELSE [S EXCEPT !.values[v].grad = g]

(***************************************************************************)
(* A running function body: the program state s and the function's local   *)
(* variables r, by name.  Each statement of the source is one step that    *)
(* takes the body so far and gives the body after it.                      *)
(***************************************************************************)
Begin(S) == [s |-> S, r |-> <<>>]

Let(M, name, val) == [M EXCEPT !.r = Append(@, <<name, val>>)]

\* The value of local variable name: its latest assignment.
Local(M, name) ==
    LET at == {i \in DOMAIN M.r : M.r[i][1] = name}
    IN  IF at = {} THEN NullV
        ELSE M.r[CHOOSE i \in at : \A j \in at : j <= i][2]

Locals(M, names) == [i \in DOMAIN names |-> Local(M, names[i])]

On(M, S) == [M EXCEPT !.s = S]

MCheck(M, cond, msg) == On(M, Check(M.s, cond, msg))

(***************************************************************************)
(* GraphBuilder: a graph and a category for the names it generates.        *)
(***************************************************************************)
GraphBuilder(g, category) == [g |-> g, category |-> category]

\* GraphBuilder::Op(op, inputs): a fresh output Value and the node writing it.
gbOpS(S, gb, op, inputs, dtype, id, attr) ==
    AddNode(AddValue(S, gb.g, "Temp", dtype), gb.g, op, inputs,
            <<Len(S.values) + 1>>, gb.category, id, attr)

gbOp(M, gb, op, inputs, attr, out) ==
    Let(On(M, gbOpS(M.s, gb, op, Locals(M, inputs), "Unknown", 0, attr)),
        out, IF M.s.fatal # "" THEN NullV ELSE Len(M.s.values) + 1)

\* GraphBuilder::MOp(op, inputs, outputs): a node over the given outputs.
gbMOp(M, gb, op, inputs, outputs, attr) ==
    On(M, AddNode(M.s, gb.g, op, Locals(M, inputs), Locals(M, outputs),
                  gb.category, 0, attr))

\* GraphBuilder::Const(type, data): a Constant node and its typed output.
gbConst(M, gb, dtype, data, out) ==
    Let(On(M, gbOpS(M.s, gb, "Constant", <<>>, dtype, 0, [value |-> data])),
        out, IF M.s.fatal # "" THEN NullV ELSE Len(M.s.values) + 1)

\* The dtype of a local Value's Type.
DtypeOf(M, name) ==
    IF Local(M, name) = NullV THEN "Unknown" ELSE M.s.values[Local(M, name)].dtype

\* Const(Type(<name>->type().dtype(), {}), data)
gbConstLike(M, gb, name, data, out) == gbConst(M, gb, DtypeOf(M, name), data, out)

(***************************************************************************)
(* GradientOpContext: the node being differentiated, its inputs x_ and     *)
(* outputs y_ (references to the node's own lists), name_, and             *)
(* retain_in_stack_.                                                       *)
(***************************************************************************)
StripOnikux(op) ==
    CASE op = "OnikuxSelectItem" -> "SelectItem"
      [] op = "OnikuxSequenceStack" -> "SequenceStack"
      [] op = "OnikuxSequenceAppend" -> "SequenceAppend"
      [] OTHER -> op

GradientOpContext(S, g, node, retain_in_stack) ==
    [g |-> g, node |-> node, name_ |-> StripOnikux(S.nodes[node].op) \o "Grad",
     retain_in_stack_ |-> retain_in_stack]

x_(S, c) == S.nodes[c.node].inputs
y_(S, c) == S.nodes[c.node].outputs
node_(S, c) == S.nodes[c.node]

\* int id = ++id_ on std::atomic<int>: the increment wraps at the int width.
NextId(i) == IF i = IntMax THEN -IntMax - 1 ELSE i + 1

Retained(S, v, ret, on, id, n0) ==
    IF S.fatal # "" THEN S
    ELSE [S EXCEPT !.retains = Append(@,
            [v |-> v, ret |-> ret, on |-> on, id |-> id, n0 |-> n0,
             n1 |-> Len(S.nodes)])]

\* The mutant of Retain: the pop is given an id of its own.
RetainTwoIds(S, c, v) ==
    IF S.fatal # "" \/ ~c.retain_in_stack_ THEN Retained(S, v, v, FALSE, 0, Len(S.nodes))
    ELSE Retained(
           gbOpS(AddNode([S EXCEPT !.id_ = NextId(NextId(S.id_))], c.g,
                         "OnikuxBackpropStackPush", <<v>>, <<>>,
                         c.name_ \o "Retain", NextId(S.id_), NoAttr),
                 GraphBuilder(c.g, c.name_ \o "Retain"), "OnikuxBackpropStackPop",
                 <<>>, S.values[v].dtype, NextId(NextId(S.id_)), NoAttr),
           v, Len(S.values) + 1, TRUE, NextId(S.id_), Len(S.nodes))

\* The mutant of Retain: the counter is read but not advanced, so every pair
\* carries the same id.
RetainSameId(S, c, v) ==
    IF S.fatal # "" \/ ~c.retain_in_stack_ THEN Retained(S, v, v, FALSE, 0, Len(S.nodes))
    ELSE Retained(
           gbOpS(AddNode(S, c.g,
                         "OnikuxBackpropStackPush", <<v>>, <<>>,
                         c.name_ \o "Retain", NextId(S.id_), NoAttr),
                 GraphBuilder(c.g, c.name_ \o "Retain"), "OnikuxBackpropStackPop",
                 <<>>, S.values[v].dtype, NextId(S.id_), NoAttr),
           v, Len(S.values) + 1, TRUE, NextId(S.id_), Len(S.nodes))

\* Retain(v): v itself without retention; with it, a stack push of v and a
\* stack pop typed like v, both carrying the fresh id; the state after it.
Retain(S, c, v) ==
    IF S.fatal # "" \/ ~c.retain_in_stack_ THEN Retained(S, v, v, FALSE, 0, Len(S.nodes))
    ELSE Retained(
           gbOpS(AddNode([S EXCEPT !.id_ = NextId(S.id_)], c.g,
                         "OnikuxBackpropStackPush", <<v>>, <<>>,
                         c.name_ \o "Retain", NextId(S.id_), NoAttr),
                 GraphBuilder(c.g, c.name_ \o "Retain"), "OnikuxBackpropStackPop",
                 <<>>, S.values[v].dtype, NextId(S.id_), NoAttr),
           v, Len(S.values) + 1, TRUE, NextId(S.id_), Len(S.nodes))

\* The Value Retain(v) returns in state S.
RetainResult(S, c, v) ==
    IF S.fatal # "" THEN NullV
    ELSE IF c.retain_in_stack_ THEN Len(S.values) + 1 ELSE v

InRange(S, i, list) == Check(Check(S, 0 <= i, "CHECK_LE"), Len(list) > i, "CHECK_GT")

x(M, c, i, out) ==
    IF InRange(M.s, i, x_(M.s, c)).fatal # ""
    THEN Let(On(M, InRange(M.s, i, x_(M.s, c))), out, NullV)
    ELSE Let(On(M, Retain(M.s, c, x_(M.s, c)[i + 1])), out,
             RetainResult(M.s, c, x_(M.s, c)[i + 1]))

y(M, c, i, out) ==
    IF InRange(M.s, i, y_(M.s, c)).fatal # ""
    THEN Let(On(M, InRange(M.s, i, y_(M.s, c))), out, NullV)
    ELSE Let(On(M, Retain(M.s, c, y_(M.s, c)[i + 1])), out,
             RetainResult(M.s, c, y_(M.s, c)[i + 1]))

\* gy(i): the gradient attached to output i (nullptr when none is).
gy(M, c, i, out) ==
    IF InRange(M.s, i, y_(M.s, c)).fatal # ""
    THEN Let(On(M, InRange(M.s, i, y_(M.s, c))), out, NullV)
    ELSE Let(M, out, Grad(M.s, y_(M.s, c)[i + 1]))

\* builder(xi): GraphBuilder(graph_, name_, x(xi)).
builder(M, c, xi) == x(M, c, xi, "builder")

gb_(c) == GraphBuilder(c.g, c.name_)

SetGradLogged(S, c, xi, gx) ==
    [S EXCEPT !.setgrads = Append(@,
        [node |-> c.node, g |-> c.g, xi |-> xi, x |-> x_(S, c)[xi + 1], gx |-> gx,
         old |-> Grad(S, x_(S, c)[xi + 1])])]

\* The mutant of SetGradS: a later contribution overwrites the stored one.
SetGradOverwrite(S, c, xi, gx) ==
    IF InRange(S, xi, x_(S, c)).fatal # "" THEN InRange(S, xi, x_(S, c))
    ELSE SetGradOf(SetGradLogged(S, c, xi, gx), x_(S, c)[xi + 1], gx)

\* SetGrad(xi, gx): accumulate into input xi's gradient; store it when first.
SetGradS(S, c, xi, gx) ==
    IF InRange(S, xi, x_(S, c)).fatal # "" THEN InRange(S, xi, x_(S, c))
    ELSE IF Grad(S, x_(S, c)[xi + 1]) # NullV
    THEN SetGradOf(gbOpS(SetGradLogged(S, c, xi, gx), GraphBuilder(c.g, "AccumGrad"),
                         "Add", <<Grad(S, x_(S, c)[xi + 1]), gx>>, "Unknown", 0, NoAttr),
                   x_(S, c)[xi + 1], Len(S.values) + 1)
    ELSE SetGradOf(SetGradLogged(S, c, xi, gx), x_(S, c)[xi + 1], gx)

SetGrad(M, c, xi, gx) == On(M, SetGradS(M.s, c, xi, Local(M, gx)))

\* AddGradValue(xi): a fresh Value named after x(xi), registered by SetGrad.
AddGradValueS(S, c, xi) ==
    SetGradS(AddValue(S, c.g, "Temp", "Unknown"), c, xi, Len(S.values) + 1)

AddGradValueX(M, c, xi, out) ==
    Let(On(M, AddGradValueS(M.s, c, xi)), out,
        IF M.s.fatal # "" THEN NullV ELSE Len(M.s.values) + 1)

AddGradValue(M, c, xi, out) == AddGradValueX(x(M, c, xi, "name"), c, xi, out)

\* GradOp(op, xi, inputs): AddGradValue(xi), then the node that computes it.
GradOpNode(M, c, op, inputs, attr, out) ==
    On(M, AddNode(M.s, c.g, op, Locals(M, inputs), <<Local(M, out)>>, c.name_, 0, attr))

GradOp(M, c, op, xi, inputs, attr, out) ==
    GradOpNode(AddGradValue(M, c, xi, out), c, op, inputs, attr, out)

(***************************************************************************)
(* The gradient rules of the elementwise operators.  Arguments are         *)
(* evaluated in the order the source lists them; each x(i)/y(i) is a       *)
(* request to Retain.                                                      *)
(***************************************************************************)
AddGradFn(S, c) ==
    LET m1 == gy(Begin(S), c, 0, "gy0")
        m2 == SetGrad(m1, c, 0, "gy0")
        m3 == gy(m2, c, 0, "gy1")
        m4 == SetGrad(m3, c, 1, "gy1")
    IN  m4.s

SubGradFn(S, c) ==
    LET m1 == gy(Begin(S), c, 0, "gy0")
        m2 == SetGrad(m1, c, 0, "gy0")
        m3 == gy(m2, c, 0, "gy1")
        m4 == GradOp(m3, c, "Neg", 1, <<"gy1">>, NoAttr, "gx1")
    IN  m4.s

MulGradFn(S, c) ==
    LET m1 == x(Begin(S), c, 1, "x1")
        m2 == gy(m1, c, 0, "gy0")
        m3 == GradOp(m2, c, "Mul", 0, <<"x1", "gy0">>, NoAttr, "gx0")
        m4 == x(m3, c, 0, "x0")
        m5 == gy(m4, c, 0, "gy1")
        m6 == GradOp(m5, c, "Mul", 1, <<"x0", "gy1">>, NoAttr, "gx1")
    IN  m6.s

\* Value::grad of the Value input xi refers to.
GradOfInput(M, c, xi, out) == Let(M, out, Grad(M.s, x_(M.s, c)[xi + 1]))

\* The mutant of DivGradFn: the second operand's gradient is built from the
\* first operand's accumulated gradient instead of the fresh gy / b.
DivGradFnFromAccumulated(S, c) ==
    LET m1 == gy(Begin(S), c, 0, "gy")
        m2 == x(m1, c, 1, "x1")
        m3 == GradOp(m2, c, "Div", 0, <<"gy", "x1">>, NoAttr, "fresh")
        m4 == GradOfInput(m3, c, 0, "gx0")
        m5 == builder(m4, c, 1)
        m6 == gbOp(m5, gb_(c), "Neg", <<"gx0">>, NoAttr, "t0")
        m7 == x(m6, c, 0, "x0")
        m8 == gbOp(m7, gb_(c), "Mul", <<"t0", "x0">>, NoAttr, "t1")
        m9 == x(m8, c, 1, "x1b")
        m10 == GradOp(m9, c, "Div", 1, <<"t1", "x1b">>, NoAttr, "gx1")
    IN  m10.s

DivGradFn(S, c) ==
    LET m1 == gy(Begin(S), c, 0, "gy")
        m2 == x(m1, c, 1, "x1")
        m3 == GradOp(m2, c, "Div", 0, <<"gy", "x1">>, NoAttr, "gx0")
        m4 == builder(m3, c, 1)
        m5 == gbOp(m4, gb_(c), "Neg", <<"gx0">>, NoAttr, "t0")
        m6 == x(m5, c, 0, "x0")
        m7 == gbOp(m6, gb_(c), "Mul", <<"t0", "x0">>, NoAttr, "t1")
        m8 == x(m7, c, 1, "x1b")
        m9 == GradOp(m8, c, "Div", 1, <<"t1", "x1b">>, NoAttr, "gx1")
    IN  m9.s

NegGradFn(S, c) ==
    LET m1 == gy(Begin(S), c, 0, "gy")
        m2 == GradOp(m1, c, "Neg", 0, <<"gy">>, NoAttr, "gx")
    IN  m2.s

ExpGradFn(S, c) ==
    LET m1 == y(Begin(S), c, 0, "y0")
        m2 == gy(m1, c, 0, "gy")
        m3 == GradOp(m2, c, "Mul", 0, <<"y0", "gy">>, NoAttr, "gx")
    IN  m3.s

\* CHECK_EQ(dtype, <name>->type().dtype())
CheckDtype(M, dtype, name) == MCheck(M, DtypeOf(M, name) = dtype, "CHECK_EQ dtype")

\* The mutant of SigmoidGradFn: the factor (1 - y) is built from the input.
SigmoidGradFnFromInput(S, c) ==
    LET m1 == x(Begin(S), c, 0, "xa")
        m2 == CheckDtype(m1, "Float32", "xa")
        m3 == builder(m2, c, 0)
        m4 == gy(m3, c, 0, "gy")
        m5 == x(m4, c, 0, "xb")
        m6 == gbConstLike(m5, gb_(c), "xb", 1, "one")
        m7 == y(m6, c, 0, "ya")
        m8 == gbOp(m7, gb_(c), "Mul", <<"gy", "ya">>, NoAttr, "t0")
        m9 == x(m8, c, 0, "yb")
        m10 == gbOp(m9, gb_(c), "Sub", <<"one", "yb">>, NoAttr, "t1")
        m11 == GradOp(m10, c, "Mul", 0, <<"t0", "t1">>, NoAttr, "gx")
    IN  m11.s

SigmoidGradFn(S, c) ==
    LET m1 == x(Begin(S), c, 0, "xa")
        m2 == CheckDtype(m1, "Float32", "xa")
        m3 == builder(m2, c, 0)
        m4 == gy(m3, c, 0, "gy")
        m5 == x(m4, c, 0, "xb")
        m6 == gbConstLike(m5, gb_(c), "xb", 1, "one")
        m7 == y(m6, c, 0, "ya")
        m8 == gbOp(m7, gb_(c), "Mul", <<"gy", "ya">>, NoAttr, "t0")
        m9 == y(m8, c, 0, "yb")
        m10 == gbOp(m9, gb_(c), "Sub", <<"one", "yb">>, NoAttr, "t1")
        m11 == GradOp(m10, c, "Mul", 0, <<"t0", "t1">>, NoAttr, "gx")
    IN  m11.s

ReluGradFn(S, c) ==
    LET m1 == x(Begin(S), c, 0, "x0")
        m2 == gy(m1, c, 0, "gy")
        m3 == GradOp(m2, c, "OnikuxReluGrad", 0, <<"x0", "gy">>, NoAttr, "gx")
    IN  m3.s

SqrtGradFn(S, c) ==
    LET m1 == builder(Begin(S), c, 0)
        m2 == y(m1, c, 0, "ya")
        m3 == y(m2, c, 0, "yb")
        m4 == gbOp(m3, gb_(c), "Add", <<"ya", "yb">>, NoAttr, "t0")
        m5 == gy(m4, c, 0, "gy")
        m6 == GradOp(m5, c, "Div", 0, <<"gy", "t0">>, NoAttr, "gx")
    IN  m6.s

TanhGradFn(S, c) ==
    LET m1 == builder(Begin(S), c, 0)
        m2 == x(m1, c, 0, "xa")
        m3 == gbConstLike(m2, gb_(c), "xa", 1, "one")
        m4 == gy(m3, c, 0, "gy")
        m5 == y(m4, c, 0, "ya")
        m6 == y(m5, c, 0, "yb")
        m7 == gbOp(m6, gb_(c), "Mul", <<"ya", "yb">>, NoAttr, "t0")
        m8 == gbOp(m7, gb_(c), "Sub", <<"one", "t0">>, NoAttr, "t1")
        m9 == GradOp(m8, c, "Mul", 0, <<"gy", "t1">>, NoAttr, "gx")
    IN  m9.s

IdentityGradFn(S, c) ==
    LET m1 == gy(Begin(S), c, 0, "gy")
        m2 == GradOp(m1, c, "Identity", 0, <<"gy">>, NoAttr, "gx")
    IN  m2.s

DoNothingGradFn(S, c) == S

(***************************************************************************)
(* The gradient rules of the shape, reduction, matrix, windowed and        *)
(* normalization operators.                                                *)
(***************************************************************************)
ReshapeGradFn(S, c) ==
    LET m1 == builder(Begin(S), c, 0)
        m2 == x(m1, c, 0, "x0")
        m3 == gbOp(m2, gb_(c), "Shape", <<"x0">>, NoAttr, "t0")
        m4 == gy(m3, c, 0, "gy")
        m5 == GradOp(m4, c, "Reshape", 0, <<"gy", "t0">>, NoAttr, "gx")
    IN  m5.s

SelectItemGradFn(S, c) ==
    LET m1 == builder(Begin(S), c, 0)
        m2 == x(m1, c, 0, "x0")
        m3 == gbOp(m2, gb_(c), "Shape", <<"x0">>, NoAttr, "t0")
        m4 == gy(m3, c, 0, "gy")
        m5 == x(m4, c, 1, "x1")
        m6 == GradOp(m5, c, "OnikuxSelectItemGrad", 0, <<"gy", "x1", "t0">>, NoAttr, "gx")
    IN  m6.s

ReduceSumGradFn(S, c) ==
    LET m1 == builder(Begin(S), c, 0)
        m2 == gy(m1, c, 0, "gy")
        m3 == x(m2, c, 0, "x0")
        m4 == gbOp(m3, gb_(c), "Shape", <<"x0">>, NoAttr, "shape")
        m5 == GradOp(m4, c, "Expand", 0, <<"gy", "shape">>, NoAttr, "gx")
    IN  m5.s

ReduceMeanGradFn(S, c) ==
    LET m1 == builder(Begin(S), c, 0)
        m2 == gy(m1, c, 0, "gy")
        m3 == x(m2, c, 0, "x0")
        m4 == gbOp(m3, gb_(c), "Shape", <<"x0">>, NoAttr, "shape")
        m5 == gbConst(m4, gb_(c), "Int64", 0, "zero")
        m6 == gbOp(m5, gb_(c), "Gather", <<"shape", "zero">>, NoAttr, "batch_size_int")
        m7 == gbOp(m6, gb_(c), "Cast", <<"batch_size_int">>, [to |-> "Float32"],
                   "batch_size")
        m8 == gbOp(m7, gb_(c), "Div", <<"gy", "batch_size">>, NoAttr, "divided")
        m9 == GradOp(m8, c, "Expand", 0, <<"divided", "shape">>, NoAttr, "gx")
    IN  m9.s

GemmAttr(alpha, beta, trans_a, trans_b) ==
    [alpha |-> alpha, beta |-> beta, trans_a |-> trans_a, trans_b |-> trans_b]

\* The Gemm node GemmGradFn emits for the first operand, from the node's flags.
GemmGradA(M, c, nd) ==
    IF nd.trans_a
    THEN gbOp(M, gb_(c), "Gemm", <<"x1", "gy", "x0">>,
              GemmAttr(nd.alpha, 0, nd.trans_b, TRUE), "gx0")
    ELSE gbOp(M, gb_(c), "Gemm", <<"gy", "x1", "x0">>,
              GemmAttr(nd.alpha, 0, FALSE, ~nd.trans_b), "gx0")

\* The mutant of GemmGradB: the emitted node repeats the forward node's
\* transpose flag of the first operand instead of negating it.
GemmGradBKeepFlag(M, c, nd) ==
    IF nd.trans_b
    THEN gbOp(M, gb_(c), "Gemm", <<"gy", "x0", "x1">>,
              GemmAttr(nd.alpha, 0, TRUE, nd.trans_a), "gx1")
    ELSE gbOp(M, gb_(c), "Gemm", <<"x0", "gy", "x1">>,
              GemmAttr(nd.alpha, 0, nd.trans_a, FALSE), "gx1")

\* The Gemm node GemmGradFn emits for the second operand.
GemmGradB(M, c, nd) ==
    IF nd.trans_b
    THEN gbOp(M, gb_(c), "Gemm", <<"gy", "x0", "x1">>,
              GemmAttr(nd.alpha, 0, TRUE, nd.trans_a), "gx1")
    ELSE gbOp(M, gb_(c), "Gemm", <<"x0", "gy", "x1">>,
              GemmAttr(nd.alpha, 0, ~nd.trans_a, FALSE), "gx1")

GemmGradFn(S, c) ==
    LET m1  == gy(Begin(S), c, 0, "gy")
        m2  == builder(m1, c, 0)
        m3  == x(m2, c, 1, "x1")
        m4  == x(m3, c, 0, "x0")
        m5  == GemmGradA(m4, c, node_(S, c).attr)
        m6  == x(m5, c, 0, "xs0")
        m7  == gbOp(m6, gb_(c), "Shape", <<"xs0">>, NoAttr, "shape0")
        m8  == GradOp(m7, c, "Reshape", 0, <<"gx0", "shape0">>, NoAttr, "g0")
        m9  == builder(m8, c, 1)
        m10 == x(m9, c, 0, "x0")
        m11 == x(m10, c, 1, "x1")
        m12 == GemmGradB(m11, c, node_(S, c).attr)
        m13 == x(m12, c, 1, "xs1")
        m14 == gbOp(m13, gb_(c), "Shape", <<"xs1">>, NoAttr, "shape1")
        m15 == GradOp(m14, c, "Reshape", 1, <<"gx1", "shape1">>, NoAttr, "g1")
        m16 == GradOp(m15, c, "ReduceSum", 2, <<"gy">>,
                      [axes |-> <<0>>, keepdims |-> FALSE], "g2")
    IN  m16.s

ConvAxes(kernel_shape) == <<0>> \o [i \in 1..Len(kernel_shape) |-> 2 + (i - 1)]

\* if (node->inputs().size() == 3): the bias gradient.
ConvGradBias(M, c, nd) ==
    IF M.s.fatal = "" /\ Len(x_(M.s, c)) = 3
    THEN GradOp(MCheck(M, nd.kernel_shape # <<>>, "ConvGrad with no kernel_shape"),
                c, "ReduceSum", 2, <<"gy">>,
                [axes |-> ConvAxes(nd.kernel_shape), keepdims |-> FALSE], "g2")
    ELSE M

ConvGradFn(S, c) ==
    LET sp == [strides |-> node_(S, c).attr.strides, pads |-> node_(S, c).attr.pads]
        m1 == gy(Begin(S), c, 0, "gy")
        m2 == x(m1, c, 1, "w")
        m3 == builder(m2, c, 0)
        m4 == x(m3, c, 0, "x0")
        m5 == gbOp(m4, gb_(c), "Shape", <<"x0">>, NoAttr, "x_shape")
        m6 == GradOp(m5, c, "OnikuxConvTransposeWithDynamicOutputShape", 0,
                     <<"gy", "w", "x_shape">>, sp, "g0")
        m7 == x(m6, c, 0, "x0b")
        m8 == GradOp(m7, c, "OnikuxConvGradWeight", 1, <<"w", "x0b", "gy">>, sp, "g1")
        m9 == ConvGradBias(m8, c, node_(S, c).attr)
    IN  m9.s

MaxPoolGradFn(S, c) ==
    LET m1 == y(Begin(S), c, 0, "y0")
        m2 == gy(m1, c, 0, "gy")
        m3 == GradOp(m2, c, "OnikuxMaxPoolGrad", 0, <<"y0", "gy">>, NoAttr, "gx")
    IN  m3.s

AveragePoolGradFn(S, c) ==
    LET m1 == y(Begin(S), c, 0, "y0")
        m2 == gy(m1, c, 0, "gy")
        m3 == GradOp(m2, c, "OnikuxAveragePoolGrad", 0, <<"y0", "gy">>, NoAttr, "gx")
    IN  m3.s

LogSoftmaxGradFn(S, c) ==
    LET m1 == builder(Begin(S), c, 0)
        m2 == MCheck(m1, node_(S, c).attr.axis = 1, "CHECK_EQ axis")
        m3 == gy(m2, c, 0, "gy")
        m4 == gbOp(m3, gb_(c), "ReduceSum", <<"gy">>,
                   [axes |-> <<node_(S, c).attr.axis>>, keepdims |-> TRUE], "sum_val")
        m5 == y(m4, c, 0, "y0")
        m6 == gbOp(m5, gb_(c), "Exp", <<"y0">>, NoAttr, "exp_val")
        m7 == gbOp(m6, gb_(c), "Mul", <<"exp_val", "sum_val">>, NoAttr, "mul_val")
        m8 == GradOp(m7, c, "Sub", 0, <<"gy", "mul_val">>, NoAttr, "gx")
    IN  m8.s

SoftmaxGradFn(S, c) ==
    LET m1 == builder(Begin(S), c, 0)
        m2 == gy(m1, c, 0, "gy")
        m3 == y(m2, c, 0, "y0")
        m4 == gbOp(m3, gb_(c), "Mul", <<"y0", "gy">>, NoAttr, "gx")
        m5 == gbOp(m4, gb_(c), "ReduceSum", <<"gx">>,
                   [axes |-> <<node_(S, c).attr.axis>>, keepdims |-> TRUE], "sum_val")
        m6 == y(m5, c, 0, "y1")
        m7 == gbOp(m6, gb_(c), "Mul", <<"y1", "sum_val">>, NoAttr, "mul_val")
        m8 == GradOp(m7, c, "Sub", 0, <<"gx", "mul_val">>, NoAttr, "g0")
    IN  m8.s

\* Graph::AddConstValue(name, type, data): a typed Value holding constant data.
AddConstValueLike(M, g, name, data, out) ==
    gbConstLike(M, GraphBuilder(g, "AddConstValue"), name, data, out)

\* graph()->AddNode(op, inputs, outputs, __func__)
GraphAddNode(M, g, op, inputs, outputs, name) ==
    On(M, AddNode(M.s, g, op, Locals(M, inputs), Locals(M, outputs), name, 0, NoAttr))

\* The mutant of BatchNormalizationGradFn: the running statistics get no
\* gradient.
BatchNormalizationGradFnNoStats(S, c) ==
    LET m1 == AddGradValue(Begin(S), c, 0, "gx0")
        m2 == AddGradValue(m1, c, 1, "gx1")
        m3 == AddGradValue(m2, c, 2, "gx2")
        m4 == y(m3, c, 0, "y0")
        m5 == gy(m4, c, 0, "gy")
        m6 == GraphAddNode(m5, c.g, "OnikuxBatchNormalizationGrad", <<"y0", "gy">>,
                           <<"gx0", "gx1", "gx2">>, "BatchNormalizationGradFn")
    IN  m6.s

BatchNormalizationGradFn(S, c) ==
    LET m1 == AddGradValue(Begin(S), c, 0, "gx0")
        m2 == AddGradValue(m1, c, 1, "gx1")
        m3 == AddGradValue(m2, c, 2, "gx2")
        m4 == y(m3, c, 0, "y0")
        m5 == gy(m4, c, 0, "gy")
        m6 == GraphAddNode(m5, c.g, "OnikuxBatchNormalizationGrad", <<"y0", "gy">>,
                           <<"gx0", "gx1", "gx2">>, "BatchNormalizationGradFn")
        m7 == x(m6, c, 0, "xa")
        m8 == x(m7, c, 0, "xb")
        m9 == AddConstValueLike(m8, c.g, "xb", 0, "zero")
        m10 == SetGrad(m9, c, 3, "zero")
        m11 == SetGrad(m10, c, 4, "zero")
    IN  m11.s

LRNGradFn(S, c) ==
    LET nd == node_(S, c).attr
        m1 == x(Begin(S), c, 0, "x0")
        m2 == y(m1, c, 0, "y0")
        m3 == gy(m2, c, 0, "gy")
        m4 == GradOp(m3, c, "OnikuxLRNGrad", 0, <<"x0", "y0", "gy">>,
                     [alpha |-> nd.alpha, beta |-> nd.beta, bias |-> nd.bias,
                      size |-> nd.size], "gx")
    IN  m4.s

SequenceStackGradFn(S, c) ==
    LET m1 == gy(Begin(S), c, 0, "gy")
        m2 == GradOp(m1, c, "OnikuxSequenceSplit", 0, <<"gy">>,
                     [axis |-> node_(S, c).attr.axis], "gx")
    IN  m2.s

SequenceAppendGradFn(S, c) ==
    LET m1 == builder(Begin(S), c, 0)
        m2 == AddGradValue(m1, c, 0, "gx0")
        m3 == AddGradValue(m2, c, 1, "gx1")
        m4 == gy(m3, c, 0, "gy")
        m5 == gbMOp(m4, gb_(c), "OnikuxSequencePop", <<"gy">>, <<"gx0", "gx1">>, NoAttr)
    IN  m5.s

(***************************************************************************)
(* The registry and the dispatch, and the loop rule, which differentiates  *)
(* the loop body through AddGradientNodes and so through the dispatch.     *)
(***************************************************************************)
GradientFunc(num_inputs, num_outputs, fn) ==
    [num_inputs |-> num_inputs, num_outputs |-> num_outputs, fn |-> fn]

\* s_gradient_funcs, as register_grad_fn fills it.
s_gradient_funcs ==
    [op \in {"Add", "Sub", "Mul", "Div", "Neg", "Exp", "Sigmoid", "Relu", "Sqrt",
             "Tanh", "Identity", "Reshape", "OnikuxSelectItem", "ReduceSum",
             "ReduceMean", "Gemm", "Conv", "MaxPool", "AveragePool", "LogSoftmax",
             "Softmax", "BatchNormalization", "LRN", "Dropout", "Greater",
             "Constant", "Loop", "OnikuxSequenceStack", "OnikuxSequenceAppend"} |->
        CASE op = "Add" -> GradientFunc(2, 1, "AddGradFn")
          [] op = "Sub" -> GradientFunc(2, 1, "SubGradFn")
          [] op = "Mul" -> GradientFunc(2, 1, "MulGradFn")
          [] op = "Div" -> GradientFunc(2, 1, "DivGradFn")
          [] op = "Neg" -> GradientFunc(1, 1, "NegGradFn")
          [] op = "Exp" -> GradientFunc(1, 1, "ExpGradFn")
          [] op = "Sigmoid" -> GradientFunc(1, 1, "SigmoidGradFn")
          [] op = "Relu" -> GradientFunc(1, 1, "ReluGradFn")
          [] op = "Sqrt" -> GradientFunc(1, 1, "SqrtGradFn")
          [] op = "Tanh" -> GradientFunc(1, 1, "TanhGradFn")
          [] op = "Identity" -> GradientFunc(1, 1, "IdentityGradFn")
          [] op = "Reshape" -> GradientFunc(2, 1, "ReshapeGradFn")
          [] op = "OnikuxSelectItem" -> GradientFunc(2, 1, "SelectItemGradFn")
          [] op = "ReduceSum" -> GradientFunc(1, 1, "ReduceSumGradFn")
          [] op = "ReduceMean" -> GradientFunc(1, 1, "ReduceMeanGradFn")
          [] op = "Gemm" -> GradientFunc(3, 1, "GemmGradFn")
          [] op = "Conv" -> GradientFunc(-1, 1, "ConvGradFn")
          [] op = "MaxPool" -> GradientFunc(1, 1, "MaxPoolGradFn")
          [] op = "AveragePool" -> GradientFunc(1, 1, "AveragePoolGradFn")
          [] op = "LogSoftmax" -> GradientFunc(1, 1, "LogSoftmaxGradFn")
          [] op = "Softmax" -> GradientFunc(1, 1, "SoftmaxGradFn")
          [] op = "BatchNormalization" -> GradientFunc(5, -1, "BatchNormalizationGradFn")
          [] op = "LRN" -> GradientFunc(1, 1, "LRNGradFn")
          [] op = "Dropout" -> GradientFunc(1, 1, "IdentityGradFn")
          [] op = "Greater" -> GradientFunc(2, 1, "DoNothingGradFn")
          [] op = "Constant" -> GradientFunc(0, 1, "DoNothingGradFn")
          [] op = "Loop" -> GradientFunc(-1, -1, "LoopGradFn")
          [] op = "OnikuxSequenceStack" -> GradientFunc(1, 1, "SequenceStackGradFn")
          [] op = "OnikuxSequenceAppend" -> GradientFunc(2, 1, "SequenceAppendGradFn")]

\* A local list (std::vector): empty until something is pushed.
LocalSeq(M, name) == IF \E i \in DOMAIN M.r : M.r[i][1] = name THEN Local(M, name) ELSE <<>>

PushV(M, list, val) == Let(M, list, Append(LocalSeq(M, list), val))

Push(M, list, name) == PushV(M, list, Local(M, name))

\* graph->AddValue(name, kind) / new Value(name, type, kind)
GraphAddValue(M, g, kind, dtype, out) ==
    Let(On(M, AddValue(M.s, g, kind, dtype)), out,
        IF M.s.fatal # "" THEN NullV ELSE Len(M.s.values) + 1)

\* Node::AddInput(value)
NodeAddInput(M, n, name) ==
    IF M.s.fatal # "" THEN M
    ELSE On(M, [M.s EXCEPT !.nodes[n].inputs = Append(@, Local(M, name))])

\* Node::AddOutput(value, index): the output is inserted at index.
NodeAddOutput(M, n, name, index) ==
    IF M.s.fatal # "" THEN M
    ELSE On(M, [M.s EXCEPT !.nodes[n].outputs =
                  SubSeq(@, 1, index) \o <<Local(M, name)>> \o SubSeq(@, index + 1, Len(@))])

\* Graph::mutable_input_values()->push_back / mutable_output_values()->push_back.
PushInputValue(M, g, name) ==
    IF M.s.fatal # "" THEN M
    ELSE On(M, [M.s EXCEPT !.graphs[g].input_values = Append(@, Local(M, name))])

PushOutputValue(M, g, name) ==
    IF M.s.fatal # "" THEN M
    ELSE On(M, [M.s EXCEPT !.graphs[g].output_values = Append(@, Local(M, name))])

\* Graph::ResetGradients: no Value of the graph keeps a gradient link.
ResetGradients(M, g) ==
    IF M.s.fatal # "" THEN M
    ELSE On(M, [M.s EXCEPT !.values = [v \in DOMAIN @ |->
                  IF @[v].g = g THEN [@[v] EXCEPT !.grad = NullV] ELSE @[v]]])

\* The mutant of OutputIterationCount: the counter starts at one.
OutputIterationCountFromOne(S, graph, loop) ==
    LET num_states == Len(S.nodes[loop].inputs) - 2
        body == S.nodes[loop].attr.body
        m1  == gbConst(Begin(S), GraphBuilder(graph, "LoopGradIterCnt"), "Int64", 1,
                       "input_iter")
        m2  == NodeAddInput(m1, loop, "input_iter")
        m3  == GraphAddValue(m2, graph, "Temp", "Unknown", "output_iter")
        m4  == NodeAddOutput(m3, loop, "output_iter", num_states)
        m5  == gbConst(m4, GraphBuilder(body, "LoopGradIterCntBody"), "Int64", 1, "one")
        m6  == GraphAddValue(m5, body, "Input", "Int64", "input_cnt")
        m7  == GraphAddValue(m6, body, "Output", "Int64", "output_cnt")
        m8  == gbMOp(m7, GraphBuilder(body, "LoopGradIterCntBody"), "Add",
                     <<"input_cnt", "one">>, <<"output_cnt">>, NoAttr)
        m9  == PushInputValue(m8, body, "input_cnt")
        m10 == PushOutputValue(m9, body, "output_cnt")
    IN  m10.s

\* OutputIterationCount: one more state, the iteration counter, in the loop
\* node and in its body.
OutputIterationCount(S, graph, loop) ==
    LET num_states == Len(S.nodes[loop].inputs) - 2
        body == S.nodes[loop].attr.body
        m1  == gbConst(Begin(S), GraphBuilder(graph, "LoopGradIterCnt"), "Int64", 0,
                       "input_iter")
        m2  == NodeAddInput(m1, loop, "input_iter")
        m3  == GraphAddValue(m2, graph, "Temp", "Unknown", "output_iter")
        m4  == NodeAddOutput(m3, loop, "output_iter", num_states)
        m5  == gbConst(m4, GraphBuilder(body, "LoopGradIterCntBody"), "Int64", 1, "one")
        m6  == GraphAddValue(m5, body, "Input", "Int64", "input_cnt")
        m7  == GraphAddValue(m6, body, "Output", "Int64", "output_cnt")
        m8  == gbMOp(m7, GraphBuilder(body, "LoopGradIterCntBody"), "Add",
                     <<"input_cnt", "one">>, <<"output_cnt">>, NoAttr)
        m9  == PushInputValue(m8, body, "input_cnt")
        m10 == PushOutputValue(m9, body, "output_cnt")
    IN  m10.s

RECURSIVE AddGradientForNode(_, _, _, _)
RECURSIVE AddGradientNodesFrom(_, _, _, _)
RECURSIVE LoopGradIns(_, _, _, _, _)
RECURSIVE LoopGradOuts(_, _, _, _, _)
RECURSIVE LoopGys(_, _, _, _)
RECURSIVE LoopGxs(_, _, _, _, _)

\* AddGradientNodes(graph, ys, retain_in_stack): the nodes of the graph that
\* lead to ys, the latest first, each differentiated once an output of it has
\* a gradient.
AddGradientNodesFrom(S, g, n, retain_in_stack) ==
    IF n = 0 \/ S.fatal # "" THEN S
    ELSE AddGradientNodesFrom(
           IF /\ S.nodes[n].g = g
              /\ S.nodes[n].live
              /\ \E i \in DOMAIN S.nodes[n].outputs :
                     Grad(S, S.nodes[n].outputs[i]) # NullV
           THEN AddGradientForNode(S, g, n, retain_in_stack)
           ELSE S,
           g, n - 1, retain_in_stack)

AddGradientNodes(M, g, ys, retain_in_stack) ==
    On(M, AddGradientNodesFrom(M.s, g, Len(M.s.nodes), retain_in_stack))

\* CHECK(<name>->grad() == nullptr) / CHECK(<name>->grad())
CheckNoGrad(M, name) ==
    MCheck(M, Grad(M.s, Local(M, name)) = NullV, "CHECK(y->grad() == nullptr)")

CheckGrad(M, name) ==
    MCheck(M, Grad(M.s, Local(M, name)) # NullV, "CHECK(grad())")

\* <name>->set_grad(<val>) / <out> = <name>->grad()
SetGradLocal(M, name, val) == On(M, SetGradOf(M.s, Local(M, name), Local(M, val)))

GradLocal(M, name, out) ==
    Let(M, out, IF M.s.fatal # "" THEN NullV ELSE Grad(M.s, Local(M, name)))

\* One pass of: for (i < num_states - 1) { y = body->output_values()[i + 1]; ... }
LoopGradIn(M, body, gb, i) ==
    LET m1 == Let(M, "y", M.s.graphs[body].output_values[i + 2])
        m2 == GraphAddValue(m1, body, "Temp", "Unknown", "gy")
        m3 == CheckNoGrad(m2, "y")
        m4 == gbOp(m3, gb, "Identity", <<"gy">>, NoAttr, "id")
        m5 == SetGradLocal(m4, "y", "id")
        m6 == Push(m5, "ys", "y")
        m7 == Push(m6, "input_value_names", "gy")
    IN  m7

LoopGradIns(M, body, gb, i, n) ==
    IF i >= n \/ M.s.fatal # "" THEN M
    ELSE LoopGradIns(LoopGradIn(M, body, gb, i), body, gb, i + 1, n)

\* One pass of: for (i < num_states - 1) { x = body->input_values()[i + 2]; ... }
LoopGradOut(M, body, gb, i) ==
    LET m1 == Let(M, "x", M.s.graphs[body].input_values[i + 3])
        m2 == CheckGrad(m1, "x")
        m3 == GradLocal(m2, "x", "gx")
        m4 == gbOp(m3, gb, "Identity", <<"gx">>, NoAttr, "out")
        m5 == Push(m4, "output_value_names", "out")
    IN  m5

LoopGradOuts(M, body, gb, i, n) ==
    IF i >= n \/ M.s.fatal # "" THEN M
    ELSE LoopGradOuts(LoopGradOut(M, body, gb, i), body, gb, i + 1, n)

\* One pass of: for (i < num_states - 1) { y = ys[i]; CHECK(y->grad()); ... }
LoopGy(M, c, i) ==
    LET m1 == Let(M, "y", y_(M.s, c)[i + 1])
        m2 == CheckGrad(m1, "y")
        m3 == GradLocal(m2, "y", "gy")
        m4 == Push(m3, "gys", "gy")
    IN  m4

LoopGys(M, c, i, n) ==
    IF i >= n \/ M.s.fatal # "" THEN M
    ELSE LoopGys(LoopGy(M, c, i), c, i + 1, n)

\* The mutant of LoopGx: the gradient is registered one input too early.
LoopGxShifted(M, c, body, i) ==
    LET m1 == Let(M, "x", M.s.graphs[body].input_values[i + 3])
        m2 == CheckGrad(m1, "x")
        m3 == AddGradValue(m2, c, i + 1, "gx")
        m4 == Push(m3, "gxs", "gx")
    IN  m4

\* One pass of: for (i < num_states - 1) { CHECK(...); gxs.push_back(...); }
LoopGx(M, c, body, i) ==
    LET m1 == Let(M, "x", M.s.graphs[body].input_values[i + 3])
        m2 == CheckGrad(m1, "x")
        m3 == AddGradValue(m2, c, i + 2, "gx")
        m4 == Push(m3, "gxs", "gx")
    IN  m4

LoopGxs(M, c, body, i, n) ==
    IF i >= n \/ M.s.fatal # "" THEN M
    ELSE LoopGxs(LoopGx(M, c, body, i), c, body, i + 1, n)

\* gb.MOp(Node::kOnikuxLoopRef, backward_inputs, gxs)
LoopRefMOp(M, gb) ==
    On(M, AddNode(M.s, gb.g, "OnikuxLoopRef", LocalSeq(M, "backward_inputs"),
                  LocalSeq(M, "gxs"), gb.category, 0, NoAttr))

\* backward_loop->set_body_ref(...) / set_input_value_names / set_output_value_names
LoopRefSetAttrs(M, body) ==
    IF M.s.fatal # "" THEN M
    ELSE On(M, [M.s EXCEPT !.nodes[Len(M.s.nodes)].attr =
                  [body_ref |-> M.s.graphs[body].name,
                   input_value_names |-> LocalSeq(M, "input_value_names"),
                   output_value_names |-> LocalSeq(M, "output_value_names")]])

\* for (Value* gy : gys) backward_inputs.push_back(gy)
PushAll(M, list, from) == Let(M, list, LocalSeq(M, list) \o LocalSeq(M, from))

\* The mutant of NotImplementedYet: only scan outputs are refused.
NotImplementedYetScansOnly(M, num_scans, onikux_stack_axis) ==
    MCheck(M, 0 = num_scans, "Not implemented yet: scan outputs")

\* CHECK_EQ(0, num_scans); CHECK_EQ(0, loop->onikux_stack_axis());
NotImplementedYet(M, num_scans, onikux_stack_axis) ==
    MCheck(MCheck(M, 0 = num_scans, "Not implemented yet: scan outputs"),
           0 = onikux_stack_axis, "Not implemented yet: stack axis")

\* LoopGradFn after OutputIterationCount(graph, loop).
LoopGradFnInstrumented(S, c) ==
    LET body == S.nodes[c.node].attr.body
        num_loop_inputs  == Len(x_(S, c))
        num_loop_outputs == Len(y_(S, c))
        num_body_inputs  == Len(S.graphs[body].input_values)
        num_body_outputs == Len(S.graphs[body].output_values)
        num_states == num_loop_inputs - 2
        num_scans  == num_body_outputs - 1 - num_states
        gb  == GraphBuilder(body, "LoopGradBody")
        m1  == MCheck(Begin(S), num_body_inputs = num_states + 2, "CHECK_EQ body inputs")
        m2  == MCheck(m1, num_loop_outputs = num_states + num_scans, "CHECK_EQ loop outputs")
        m4  == NotImplementedYet(m2, num_scans, S.nodes[c.node].attr.onikux_stack_axis)
        m5  == GraphAddValue(m4, body, "Temp", "Unknown", "in0")
        m6  == Push(m5, "input_value_names", "in0")
        m7  == GraphAddValue(m6, body, "Temp", "Unknown", "in1")
        m8  == Push(m7, "input_value_names", "in1")
        m9  == LoopGradIns(m8, body, gb, 0, num_states - 1)
        m10 == AddGradientNodes(m9, body, "ys", TRUE)
        m11 == gbConst(m10, gb, "Bool", 1, "output_cond")
        m12 == Push(m11, "output_value_names", "output_cond")
        m13 == LoopGradOuts(m12, body, gb, 0, num_states - 1)
        m14 == LoopGys(m13, c, 0, num_states - 1)
        m15 == LoopGxs(m14, c, body, 0, num_states - 1)
        m16 == PushV(m15, "backward_inputs",
                     IF num_states \in DOMAIN y_(S, c) THEN y_(S, c)[num_states] ELSE NullV)
        m17 == GraphAddValue(m16, c.g, "Null", "Unknown", "null")
        m18 == Push(m17, "backward_inputs", "null")
        m19 == PushAll(m18, "backward_inputs", "gys")
        m20 == LoopRefMOp(m19, GraphBuilder(c.g, "LoopGrad"))
        m21 == MCheck(m20, S.graphs[body].name # "", "Loop body must have a name")
        m22 == LoopRefSetAttrs(m21, body)
        m23 == ResetGradients(m22, body)
    IN  m23.s

LoopGradFn(S, c) == LoopGradFnInstrumented(OutputIterationCount(S, c.g, c.node), c)

Called(S, fn, c) ==
    [S EXCEPT !.calls = Append(@, [fn |-> fn, g |-> c.g, node |-> c.node,
                                   retain_in_stack |-> c.retain_in_stack_])]

\* func.fn(&gc)
CallGradFn(fn, S, c) ==
    CASE fn = "AddGradFn" -> AddGradFn(S, c)
      [] fn = "SubGradFn" -> SubGradFn(S, c)
      [] fn = "MulGradFn" -> MulGradFn(S, c)
      [] fn = "DivGradFn" -> DivGradFn(S, c)
      [] fn = "NegGradFn" -> NegGradFn(S, c)
      [] fn = "ExpGradFn" -> ExpGradFn(S, c)
      [] fn = "SigmoidGradFn" -> SigmoidGradFn(S, c)
      [] fn = "ReluGradFn" -> ReluGradFn(S, c)
      [] fn = "SqrtGradFn" -> SqrtGradFn(S, c)
      [] fn = "TanhGradFn" -> TanhGradFn(S, c)
      [] fn = "IdentityGradFn" -> IdentityGradFn(S, c)
      [] fn = "ReshapeGradFn" -> ReshapeGradFn(S, c)
      [] fn = "SelectItemGradFn" -> SelectItemGradFn(S, c)
      [] fn = "ReduceSumGradFn" -> ReduceSumGradFn(S, c)
      [] fn = "ReduceMeanGradFn" -> ReduceMeanGradFn(S, c)
      [] fn = "GemmGradFn" -> GemmGradFn(S, c)
      [] fn = "ConvGradFn" -> ConvGradFn(S, c)
      [] fn = "MaxPoolGradFn" -> MaxPoolGradFn(S, c)
      [] fn = "AveragePoolGradFn" -> AveragePoolGradFn(S, c)
      [] fn = "LogSoftmaxGradFn" -> LogSoftmaxGradFn(S, c)
      [] fn = "SoftmaxGradFn" -> SoftmaxGradFn(S, c)
      [] fn = "BatchNormalizationGradFn" -> BatchNormalizationGradFn(S, c)
      [] fn = "LRNGradFn" -> LRNGradFn(S, c)
      [] fn = "DoNothingGradFn" -> DoNothingGradFn(S, c)
      [] fn = "LoopGradFn" -> LoopGradFn(S, c)
      [] fn = "SequenceStackGradFn" -> SequenceStackGradFn(S, c)
      [] fn = "SequenceAppendGradFn" -> SequenceAppendGradFn(S, c)

\* GradientOpContext gc(graph, node, ...); func.fn(&gc);
Dispatch(S, func, graph, node, retain_in_stack) ==
    CallGradFn(func.fn,
               Called(S, func.fn, GradientOpContext(S, graph, node, retain_in_stack)),
               GradientOpContext(S, graph, node, retain_in_stack))

\* The mutant of AddGradientForNode: a node the registry does not cover, or one
\* whose arity differs, is skipped instead of failing.
AddGradientForNodeSkipping(S, graph, node, retain_in_stack) ==
    IF S.nodes[node].op \notin DOMAIN s_gradient_funcs THEN S
    ELSE IF \/ /\ s_gradient_funcs[S.nodes[node].op].num_inputs >= 0
               /\ s_gradient_funcs[S.nodes[node].op].num_inputs # Len(S.nodes[node].inputs)
            \/ /\ s_gradient_funcs[S.nodes[node].op].num_outputs >= 0
               /\ s_gradient_funcs[S.nodes[node].op].num_outputs # Len(S.nodes[node].outputs)
    THEN S
    ELSE Dispatch(S, s_gradient_funcs[S.nodes[node].op], graph, node, retain_in_stack)

\* CHECK_EQ(func.num_inputs, inputs.size()) and the same for the outputs, each
\* only for a declared (non-negative) arity.
CheckArity(S, func, nd) ==
    Check(Check(S, func.num_inputs >= 0 => func.num_inputs = Len(nd.inputs),
                "CHECK_EQ num_inputs"),
          func.num_outputs >= 0 => func.num_outputs = Len(nd.outputs),
          "CHECK_EQ num_outputs")

AddGradientForNode(S, graph, node, retain_in_stack) ==
    IF S.nodes[node].op \notin DOMAIN s_gradient_funcs
    THEN Check(S, FALSE, "Gradient not supported")
    ELSE IF CheckArity(S, s_gradient_funcs[S.nodes[node].op], S.nodes[node]).fatal # ""
    THEN CheckArity(S, s_gradient_funcs[S.nodes[node].op], S.nodes[node])
    ELSE Dispatch(S, s_gradient_funcs[S.nodes[node].op], graph, node, retain_in_stack)

(***************************************************************************)
(* The backward pass over a graph of elementwise nodes.  The caller builds *)
(* forward nodes, attaches a gradient to each of their outputs, and then   *)
(* hands the nodes to AddGradientForNode, the latest first.                *)
(***************************************************************************)
NoNum == [op |-> "none"]

MainGraph == 1

Shape(op, ins, nouts) == [op |-> op, ins |-> ins, nouts |-> nouts]

\* The node shapes the caller builds: the elementwise operators over the two
\* graph inputs or over the previous node's output, and four nodes the
\* registry does not cover or whose arity is not the registered one.
ElementwiseShapes ==
    {Shape(op, ins, 1) : op \in {"Add", "Sub", "Mul", "Div"},
                         ins \in {<<"a", "b">>, <<"a", "a">>}}
    \cup {Shape(op, <<"a">>, 1) : op \in {"Neg", "Exp", "Sigmoid", "Sqrt", "Tanh"}}
    \cup {Shape("Mul", <<"prev", "a">>, 1), Shape("Tanh", <<"prev">>, 1)}
    \cup {Shape("Pow", <<"a", "b">>, 1), Shape("Neg", <<"a", "b">>, 1),
          Shape("Add", <<"a">>, 1), Shape("Mul", <<"a", "b">>, 2)}

\* The Value an input selector stands for in graph g.
InputValue(S, g, sel) ==
    CASE sel = "a" -> S.graphs[g].input_values[1]
      [] sel = "b" -> S.graphs[g].input_values[2]
      [] sel = "prev" ->
            IF \E n \in DOMAIN S.nodes : S.nodes[n].g = g
            THEN S.nodes[CHOOSE n \in DOMAIN S.nodes :
                            /\ S.nodes[n].g = g
                            /\ \A k \in DOMAIN S.nodes : S.nodes[k].g = g => k <= n].outputs[1]
            ELSE S.graphs[g].input_values[1]

\* A fresh output Value with the gradient the caller attaches to it.
SeededOutput(S, g, dtype) ==
    SetGradOf(AddValue(AddValue(S, g, "Temp", dtype), g, "Seed", dtype),
              Len(S.values) + 1, Len(S.values) + 2)

\* The forward node of the given shape, over fresh outputs.
BuildForward(S, g, shape) ==
    LET ins == [i \in DOMAIN shape.ins |-> InputValue(S, g, shape.ins[i])]
        dtype == S.values[ins[1]].dtype
        base == Len(S.values)
        S1 == IF shape.nouts = 2
              THEN SeededOutput(SeededOutput(S, g, dtype), g, dtype)
              ELSE SeededOutput(S, g, dtype)
    IN  AddNode(S1, g, shape.op, ins, [i \in 1..shape.nouts |-> base + 2 * i - 1],
                "forward", 0, NoAttr)

\* The program state S becomes the state of the machine.
Commit(S) ==
    /\ values' = S.values
    /\ nodes' = S.nodes
    /\ graphs' = S.graphs
    /\ id_' = S.id_
    /\ fatal' = S.fatal
    /\ setgrads' = S.setgrads
    /\ retains' = S.retains
    /\ calls' = S.calls

InputOf(g, dtype) == [g |-> g, kind |-> "Input", dtype |-> dtype, grad |-> NullV]

Init ==
    /\ \E d \in {"Float32", "Int32"} :
          values = <<InputOf(MainGraph, d), InputOf(MainGraph, "Float32")>>
    /\ nodes = <<>>
    /\ graphs = <<[name |-> "main", input_values |-> <<1, 2>>, output_values |-> <<>>]>>
    /\ id_ = 0
    /\ fatal = ""
    /\ setgrads = <<>>
    /\ retains = <<>>
    /\ calls = <<>>
    /\ pass = [phase |-> "build", todo |-> 0]
    /\ num = NoNum

\* The caller appends one forward node to the graph.
BuildNode ==
    /\ pass.phase = "build"
    /\ pass.todo < MaxNodes
    /\ \E shape \in ElementwiseShapes : Commit(BuildForward(State, MainGraph, shape))
    /\ pass' = [pass EXCEPT !.todo = @ + 1]
    /\ UNCHANGED num

\* The caller differentiates the latest forward node not yet differentiated.
Differentiate ==
    /\ fatal = ""
    /\ pass.todo >= 1
    /\ \E retain_in_stack \in BOOLEAN :
          Commit(AddGradientForNode(State, MainGraph, pass.todo, retain_in_stack))
    /\ pass' = [phase |-> "diff", todo |-> pass.todo - 1]
    /\ UNCHANGED num

Next == BuildNode \/ Differentiate

Spec == Init /\ [][Next]_vars

(***************************************************************************)
(* What a Value denotes: the term over the forward Values, the constants   *)
(* and the given atoms that the nodes producing it compute.  A stack pop   *)
(* denotes what the push of the same id was given.                         *)
(***************************************************************************)
Atom(v) == [op |-> "val", id |-> v, args |-> <<>>]

ConstTerm(data) == [op |-> "Constant", id |-> data, args |-> <<>>]

Term(op, args) == [op |-> op, id |-> 0, args |-> args]

Pushed(S, id) ==
    IF \E n \in DOMAIN S.nodes :
           S.nodes[n].op = "OnikuxBackpropStackPush" /\ S.nodes[n].id = id
    THEN S.nodes[CHOOSE n \in DOMAIN S.nodes :
                    S.nodes[n].op = "OnikuxBackpropStackPush" /\ S.nodes[n].id = id].inputs[1]
    ELSE NullV

RECURSIVE Expr(_, _, _)
Expr(S, v, atoms) ==
    IF v = NullV THEN Term("nullptr", <<>>)
    ELSE IF v \in atoms \/ Producer(S, v) = 0 THEN Atom(v)
    ELSE IF S.nodes[Producer(S, v)].name = "forward" THEN Atom(v)
    ELSE IF S.nodes[Producer(S, v)].op = "OnikuxBackpropStackPop"
    THEN Expr(S, Pushed(S, S.nodes[Producer(S, v)].id), atoms)
    ELSE IF S.nodes[Producer(S, v)].op = "Constant"
    THEN ConstTerm(S.nodes[Producer(S, v)].attr.value)
    ELSE Term(S.nodes[Producer(S, v)].op,
              [i \in DOMAIN S.nodes[Producer(S, v)].inputs |->
                  Expr(S, S.nodes[Producer(S, v)].inputs[i], atoms)])

(***************************************************************************)
(* C1: gradient accumulation.                                              *)
(***************************************************************************)
\* The SetGrad calls that targeted Value v, in order.
Contribs(v) == SelectSeq(setgrads, LAMBDA e : e.x = v)

IsAccumAdd(n) ==
    /\ nodes[n].op = "Add"
    /\ nodes[n].name = "AccumGrad"
    /\ Len(nodes[n].inputs) = 2
    /\ Len(nodes[n].outputs) = 1

\* The summands of g when g is a left-nested chain of k accumulation Adds,
\* and <<>> when it is not such a chain.
RECURSIVE AccumChain(_, _)
AccumChain(g, k) ==
    IF k = 0 THEN <<g>>
    ELSE IF g = NullV \/ Producer(State, g) = 0 THEN <<>>
    ELSE IF ~IsAccumAdd(Producer(State, g)) THEN <<>>
    ELSE IF AccumChain(nodes[Producer(State, g)].inputs[1], k - 1) = <<>> THEN <<>>
    ELSE Append(AccumChain(nodes[Producer(State, g)].inputs[1], k - 1),
                nodes[Producer(State, g)].inputs[2])

\* C1: after K >= 1 SetGrad calls on a Value that had no gradient, with
\* contributions g_1..g_K, the Value's gradient is g_1 when K = 1 and otherwise
\* the output of a left-nested chain of exactly K-1 accumulation Add nodes
\* whose summands are g_1..g_K in call order: each later call found the
\* previous gradient, added one Add node over it and the new contribution, and
\* nothing was overwritten or dropped; over the whole graph there is one
\* accumulation Add node per call that found a gradient already present.
C1_Accumulates ==
    /\ \A v \in DOMAIN values :
          values[v].kind = "Input" =>
             /\ Contribs(v) = <<>> => values[v].grad = NullV
             /\ Contribs(v) # <<>> =>
                  /\ Contribs(v)[1].old = NullV
                  /\ \A i \in 2..Len(Contribs(v)) : Contribs(v)[i].old # NullV
                  /\ AccumChain(values[v].grad, Len(Contribs(v)) - 1)
                        = [i \in 1..Len(Contribs(v)) |-> Contribs(v)[i].gx]
    /\ Cardinality({n \in DOMAIN nodes : nodes[n].name = "AccumGrad"})
          = Cardinality({i \in DOMAIN setgrads : setgrads[i].old # NullV})
    /\ \A n \in DOMAIN nodes : nodes[n].name = "AccumGrad" =>
          /\ IsAccumAdd(n)
          /\ \E i \in DOMAIN setgrads :
                nodes[n].inputs = <<setgrads[i].old, setgrads[i].gx>>

\* Three or more contributions to one graph input, made by two nodes, one of
\* which uses the input in both of its slots.
C1_Witness ==
    \E v \in DOMAIN values :
       /\ values[v].kind = "Input"
       /\ Len(Contribs(v)) >= 3
       /\ \E i, j \in DOMAIN Contribs(v) :
             Contribs(v)[i].node = Contribs(v)[j].node /\ Contribs(v)[i].xi # Contribs(v)[j].xi
       /\ \E i, j \in DOMAIN Contribs(v) : Contribs(v)[i].node # Contribs(v)[j].node

(***************************************************************************)
(* C2: nodes the registry does not cover.                                  *)
(***************************************************************************)
Unregistered(nd) == nd.op \notin DOMAIN s_gradient_funcs

ArityDiffers(nd) ==
    /\ nd.op \in DOMAIN s_gradient_funcs
    /\ \/ /\ s_gradient_funcs[nd.op].num_inputs # -1
          /\ s_gradient_funcs[nd.op].num_inputs # Len(nd.inputs)
       \/ /\ s_gradient_funcs[nd.op].num_outputs # -1
          /\ s_gradient_funcs[nd.op].num_outputs # Len(nd.outputs)

\* A step in which the caller hands node pass.todo to AddGradientForNode.
DifferentiatesNode == pass.todo >= 1 /\ pass'.todo = pass.todo - 1

\* C2: a call of AddGradientForNode on a node whose operator is not registered,
\* or whose input or output count differs from a declared arity, ends in a
\* fatal failure and has invoked no rule, added no node and no value, set no
\* gradient and retained nothing.
C2_FailsWithoutEffect ==
    [][(DifferentiatesNode /\ (Unregistered(nodes[pass.todo]) \/ ArityDiffers(nodes[pass.todo])))
          => /\ fatal = "" /\ fatal' # ""
             /\ calls' = calls
             /\ nodes' = nodes
             /\ values' = values
             /\ setgrads' = setgrads
             /\ retains' = retains
             /\ id_' = id_]_vars

\* The pass has differentiated one node and then failed on an unregistered one.
C2_Witness ==
    /\ fatal = "Gradient not supported"
    /\ pass.phase = "diff"
    /\ Len(calls) = 1
    /\ \E n \in DOMAIN nodes : Unregistered(nodes[n])

(***************************************************************************)
(* C3, C4: the contributions of the elementwise rules.                     *)
(***************************************************************************)
\* The term the rule of node nd owes input xi, over the node's inputs a and b,
\* its output y and the output's gradient gy, given as terms.
Owed(op, xi, ta, tb, ty, tgy) ==
    CASE op = "Add" -> tgy
      [] op = "Sub" -> IF xi = 0 THEN tgy ELSE Term("Neg", <<tgy>>)
      [] op = "Mul" -> IF xi = 0 THEN Term("Mul", <<tb, tgy>>) ELSE Term("Mul", <<ta, tgy>>)
      [] op = "Div" ->
            IF xi = 0 THEN Term("Div", <<tgy, tb>>)
            ELSE Term("Div", <<Term("Mul", <<Term("Neg", <<Term("Div", <<tgy, tb>>)>>), ta>>), tb>>)
      [] op = "Neg" -> Term("Neg", <<tgy>>)
      [] op = "Exp" -> Term("Mul", <<ty, tgy>>)
      [] op = "Sigmoid" ->
            Term("Mul", <<Term("Mul", <<tgy, ty>>), Term("Sub", <<ConstTerm(1), ty>>)>>)
      [] op = "Tanh" ->
            Term("Mul", <<tgy, Term("Sub", <<ConstTerm(1), Term("Mul", <<ty, ty>>)>>)>>)
      [] op = "Sqrt" -> Term("Div", <<tgy, Term("Add", <<ty, ty>>)>>)

\* The contribution SetGrad call e was given denotes what its node's rule owes.
ContributionAsOwed(e) ==
    Expr(State, e.gx, {values[nodes[e.node].outputs[1]].grad})
       = Owed(nodes[e.node].op, e.xi,
              Atom(nodes[e.node].inputs[1]),
              Atom(nodes[e.node].inputs[Len(nodes[e.node].inputs)]),
              Atom(nodes[e.node].outputs[1]),
              Atom(values[nodes[e.node].outputs[1]].grad))

\* C3: every contribution an add, sub, mul, div or neg node's rule passed to
\* SetGrad denotes the owed term over the node's operands and its output
\* gradient gy (add: gy, gy; sub: gy, -gy; mul: b*gy, a*gy; div: gy/b,
\* -(gy/b)*a/b; neg: -gy), also when the operand already carried a gradient.
C3_BinaryContributions ==
    \A i \in DOMAIN setgrads :
       nodes[setgrads[i].node].op \in {"Add", "Sub", "Mul", "Div", "Neg"}
          => /\ setgrads[i].xi < Len(nodes[setgrads[i].node].inputs)
             /\ ContributionAsOwed(setgrads[i])

\* A div node's rule has contributed to its second operand while its first
\* operand already carried an accumulated gradient.
C3_Witness ==
    \E i, j \in DOMAIN setgrads :
       /\ nodes[setgrads[i].node].op = "Div"
       /\ setgrads[i].xi = 0 /\ setgrads[i].old # NullV
       /\ setgrads[j].node = setgrads[i].node
       /\ setgrads[j].xi = 1
       /\ nodes[setgrads[i].node].inputs[1] # nodes[setgrads[i].node].inputs[2]

\* C4: every contribution an exp, sigmoid, tanh or sqrt node's rule registered
\* denotes the owed term over the node's forward output y and gy (exp: y*gy;
\* sigmoid: gy*y*(1-y); tanh: gy*(1-y*y); sqrt: gy/(y+y)), and a sigmoid rule
\* invoked on a node whose input is not Float32 has failed fatally and
\* registered nothing.
C4_UnaryContributions ==
    /\ \A i \in DOMAIN setgrads :
          nodes[setgrads[i].node].op \in {"Exp", "Sigmoid", "Tanh", "Sqrt"}
             => setgrads[i].xi = 0 /\ ContributionAsOwed(setgrads[i])
    /\ \A k \in DOMAIN calls :
          (/\ calls[k].fn = "SigmoidGradFn"
           /\ values[nodes[calls[k].node].inputs[1]].dtype # "Float32")
             => /\ fatal = "CHECK_EQ dtype"
                /\ k = Len(calls)
                /\ \A i \in DOMAIN setgrads : setgrads[i].node # calls[k].node
    /\ \A k \in DOMAIN calls :
          (/\ calls[k].fn \in {"ExpGradFn", "SigmoidGradFn", "TanhGradFn", "SqrtGradFn"}
           /\ ~(calls[k].fn = "SigmoidGradFn"
                /\ values[nodes[calls[k].node].inputs[1]].dtype # "Float32"))
             => \E i \in DOMAIN setgrads : setgrads[i].node = calls[k].node

\* A sigmoid node has been differentiated under retention and a tanh node
\* without it.
C4_Witness ==
    \E k, l \in DOMAIN calls :
       /\ calls[k].fn = "SigmoidGradFn" /\ calls[k].retain_in_stack
       /\ calls[l].fn = "TanhGradFn" /\ ~calls[l].retain_in_stack
       /\ \E i \in DOMAIN setgrads : setgrads[i].node = calls[k].node
       /\ \E i \in DOMAIN setgrads : setgrads[i].node = calls[l].node

(***************************************************************************)
(* C10: retention.                                                         *)
(***************************************************************************)
IsPush(n) == nodes[n].op = "OnikuxBackpropStackPush"
IsPop(n) == nodes[n].op = "OnikuxBackpropStackPop"

\* C10: every x(i)/y(i) request made under retention added exactly two nodes, a
\* stack push taking the underlying Value and a stack pop producing the
\* returned Value, typed like the underlying one, both with the request's id;
\* the ids of successive requests strictly increase, so no two pushes and no
\* two pops of the graph share an id; a request made without retention
\* returned the underlying Value and added no node.
C10_Retention ==
    /\ \A i \in DOMAIN retains :
          IF retains[i].on
          THEN /\ retains[i].n1 = retains[i].n0 + 2
               /\ IsPush(retains[i].n0 + 1)
               /\ nodes[retains[i].n0 + 1].inputs = <<retains[i].v>>
               /\ nodes[retains[i].n0 + 1].outputs = <<>>
               /\ nodes[retains[i].n0 + 1].id = retains[i].id
               /\ IsPop(retains[i].n0 + 2)
               /\ nodes[retains[i].n0 + 2].inputs = <<>>
               /\ nodes[retains[i].n0 + 2].outputs = <<retains[i].ret>>
               /\ nodes[retains[i].n0 + 2].id = retains[i].id
               /\ retains[i].ret # retains[i].v
               /\ values[retains[i].ret].dtype = values[retains[i].v].dtype
          ELSE /\ retains[i].ret = retains[i].v
               /\ retains[i].n1 = retains[i].n0
    /\ \A i, j \in DOMAIN retains :
          (i < j /\ retains[i].on /\ retains[j].on) => retains[i].id < retains[j].id
    /\ \A n, m \in DOMAIN nodes :
          (n # m /\ ((IsPush(n) /\ IsPush(m)) \/ (IsPop(n) /\ IsPop(m))))
             => nodes[n].id # nodes[m].id
    /\ \A n \in DOMAIN nodes :
          IsPush(n) => n + 1 \in DOMAIN nodes /\ IsPop(n + 1) /\ nodes[n + 1].id = nodes[n].id
    /\ Cardinality({n \in DOMAIN nodes : IsPush(n)})
          = Cardinality({i \in DOMAIN retains : retains[i].on})
    /\ Cardinality({n \in DOMAIN nodes : IsPop(n)})
          = Cardinality({i \in DOMAIN retains : retains[i].on})

\* Requests of two contexts, one with retention and one without, after which
\* two retained requests of the same Value carry different ids.
C10_Witness ==
    /\ \E k, l \in DOMAIN calls : calls[k].retain_in_stack /\ ~calls[l].retain_in_stack
    /\ \E i, j \in DOMAIN retains :
          /\ i < j /\ retains[i].on /\ retains[j].on
          /\ retains[i].v = retains[j].v
    /\ \E i \in DOMAIN retains : ~retains[i].on

(***************************************************************************)
(* The numeric layer: the dtype a binary operator computes in.             *)
(***************************************************************************)
Dtypes == {"Bool", "Int8", "Int16", "Int32", "Int64", "UInt8", "Float32", "Float64"}

\* chainerx::GetKind(dtype) == DtypeKind::kFloat
IsFloat(dtype) == dtype \in {"Float32", "Float64"}

\* chainerx::GetItemSize: sizeof the element type.
GetItemSize(dtype) ==
    CASE dtype \in {"Bool", "Int8", "UInt8"} -> 1
      [] dtype = "Int16" -> 2
      [] dtype \in {"Int32", "Float32"} -> 4
      [] dtype \in {"Int64", "Float64"} -> 8

Returns(dtype) == [fatal |-> "", dtype |-> dtype]

\* The mutant of CoerceDtype: bool loses only as the second operand.
CoerceDtypeBoolSecondOnly(dtype0, dtype1) ==
    IF dtype0 = dtype1 THEN Returns(dtype0)
    ELSE IF IsFloat(dtype0) /\ ~IsFloat(dtype1) THEN Returns(dtype0)
    ELSE IF ~IsFloat(dtype0) /\ IsFloat(dtype1) THEN Returns(dtype1)
    ELSE IF GetItemSize(dtype0) > GetItemSize(dtype1) THEN Returns(dtype0)
    ELSE IF GetItemSize(dtype0) < GetItemSize(dtype1) THEN Returns(dtype1)
    ELSE IF dtype1 = "Bool" THEN Returns(dtype0)
    ELSE IF dtype0 = "UInt8" \/ dtype1 = "UInt8" THEN Returns("Int16")
    ELSE [fatal |-> "Unknown type coerce", dtype |-> "none"]

CoerceDtype(dtype0, dtype1) ==
    IF dtype0 = dtype1 THEN Returns(dtype0)
    ELSE IF IsFloat(dtype0) /\ ~IsFloat(dtype1) THEN Returns(dtype0)
    ELSE IF ~IsFloat(dtype0) /\ IsFloat(dtype1) THEN Returns(dtype1)
    ELSE IF GetItemSize(dtype0) > GetItemSize(dtype1) THEN Returns(dtype0)
    ELSE IF GetItemSize(dtype0) < GetItemSize(dtype1) THEN Returns(dtype1)
    ELSE IF dtype1 = "Bool" THEN Returns(dtype0)
    ELSE IF dtype0 = "Bool" THEN Returns(dtype1)
    ELSE IF dtype0 = "UInt8" \/ dtype1 = "UInt8" THEN Returns("Int16")
    ELSE [fatal |-> "Unknown type coerce", dtype |-> "none"]

\* CastTo(array, dtype): the array in the given dtype.
CastTo(array, dtype) == [array EXCEPT !.dtype = dtype]

\* Two arrays wait for a binary operator.
InitCoerce ==
    /\ values = <<>>
    /\ nodes = <<>>
    /\ graphs = <<>>
    /\ id_ = 0
    /\ fatal = ""
    /\ setgrads = <<>>
    /\ retains = <<>>
    /\ calls = <<>>
    /\ pass = [phase |-> "run", todo |-> 0]
    /\ \E d0, d1 \in Dtypes :
          num = [op |-> "operands", a |-> [dtype |-> d0], b |-> [dtype |-> d1]]

\* CoerceBinary(a, b): both operands cast to the coerced dtype.
CoerceBinary ==
    /\ num.op = "operands"
    /\ fatal = ""
    /\ IF CoerceDtype(num.a.dtype, num.b.dtype).fatal # ""
       THEN /\ fatal' = CoerceDtype(num.a.dtype, num.b.dtype).fatal
            /\ num' = [num EXCEPT !.op = "aborted"]
       ELSE /\ fatal' = fatal
            /\ num' = [op |-> "CoerceBinary", a |-> num.a, b |-> num.b,
                       dtype |-> CoerceDtype(num.a.dtype, num.b.dtype).dtype,
                       ax |-> CastTo(num.a, CoerceDtype(num.a.dtype, num.b.dtype).dtype),
                       bx |-> CastTo(num.b, CoerceDtype(num.a.dtype, num.b.dtype).dtype)]
    /\ UNCHANGED <<values, nodes, graphs, id_, setgrads, retains, calls, pass>>

NextCoerce == CoerceBinary

SpecCoerce == InitCoerce /\ [][NextCoerce]_vars

(***************************************************************************)
(* C6: the coercion table.                                                 *)
(***************************************************************************)
\* The dtype the ordered rules select for the unordered pair {d0, d1}:
\* equal, else the floating one, else the wider one, else the one that is not
\* bool, else Int16 when UInt8 is involved, else none.
Selected(d0, d1) ==
    LET pair == {d0, d1}
        floating == {d \in pair : IsFloat(d)}
        widest == {d \in pair : \A e \in pair : GetItemSize(e) <= GetItemSize(d)}
        notbool == pair \ {"Bool"}
    IN  IF Cardinality(pair) = 1 THEN d0
        ELSE IF Cardinality(floating) = 1 THEN CHOOSE d \in floating : TRUE
        ELSE IF Cardinality(widest) = 1 THEN CHOOSE d \in widest : TRUE
        ELSE IF Cardinality(notbool) = 1 THEN CHOOSE d \in notbool : TRUE
        ELSE IF "UInt8" \in pair THEN "Int16"
        ELSE "none"

\* C6: for every ordered pair of the eight dtypes, CoerceBinary either casts
\* both operands to the dtype the ordered rules select, which is also what
\* CoerceDtype gives for the swapped pair, or it aborts with the unsupported
\* coercion error, and then so does the swapped pair.
C6_CoerceSymmetric ==
    /\ num.op = "CoerceBinary" =>
          /\ fatal = ""
          /\ num.dtype = Selected(num.a.dtype, num.b.dtype)
          /\ num.dtype \in Dtypes
          /\ CoerceDtype(num.b.dtype, num.a.dtype) = Returns(num.dtype)
          /\ num.ax.dtype = num.dtype /\ num.bx.dtype = num.dtype
    /\ num.op = "aborted" =>
          /\ fatal = "Unknown type coerce"
          /\ Selected(num.a.dtype, num.b.dtype) = "none"
          /\ CoerceDtype(num.b.dtype, num.a.dtype).fatal = "Unknown type coerce"

\* Bool and UInt8 have been coerced, bool first: the ordered rules give UInt8.
C6_Witness ==
    /\ num.op = "CoerceBinary"
    /\ num.a.dtype = "Bool" /\ num.b.dtype = "UInt8"
    /\ num.dtype = "UInt8"

(***************************************************************************)
(* The numeric layer: arrays and the matrix operators.  An array is its    *)
(* shape and its elements in row-major order.                              *)
(***************************************************************************)
RECURSIVE SumSeq(_)
SumSeq(q) == IF q = <<>> THEN 0 ELSE q[1] + SumSeq(Tail(q))

RECURSIVE NumElements(_)
NumElements(shape) == IF shape = <<>> THEN 1 ELSE shape[1] * NumElements(Tail(shape))

Array(shape, data) == [shape |-> shape, data |-> data]

\* The outcome of an operator chainerx rejects (DimensionError).
DimensionError == Array(<<"DimensionError">>, <<>>)

IsMatrix(a) == Len(a.shape) = 2 /\ a # DimensionError

IsVector(a) == Len(a.shape) = 1 /\ a # DimensionError

At(a, i, j) == a.data[(i - 1) * a.shape[2] + j]

\* The matrix whose element (i, j) is f[i, j].
Matrix(rows, cols, f) ==
    Array(<<rows, cols>>,
          [t \in 1..(rows * cols) |-> f[((t - 1) \div cols) + 1, ((t - 1) % cols) + 1]])

\* chainerx::Transpose of a matrix.
Transpose(a) ==
    IF ~IsMatrix(a) THEN DimensionError
    ELSE Matrix(a.shape[2], a.shape[1],
                [i \in 1..a.shape[2], j \in 1..a.shape[1] |-> At(a, j, i)])

\* chainerx::Dot of two matrices.
Dot(a, b) ==
    IF ~IsMatrix(a) \/ ~IsMatrix(b) THEN DimensionError
    ELSE IF a.shape[2] # b.shape[1] THEN DimensionError
    ELSE Matrix(a.shape[1], b.shape[2],
                [i \in 1..a.shape[1], j \in 1..b.shape[2] |->
                    SumSeq([k \in 1..a.shape[2] |-> At(a, i, k) * At(b, k, j)])])

\* r *= alpha / xc * beta
Scale(a, factor) ==
    IF a = DimensionError THEN a ELSE Array(a.shape, [t \in DOMAIN a.data |-> a.data[t] * factor])

\* r + xc, xc broadcast along the rows when it is a vector.
Plus(r, xc) ==
    IF ~IsMatrix(r) THEN DimensionError
    ELSE IF IsMatrix(xc) /\ xc.shape = r.shape
    THEN Array(r.shape, [t \in DOMAIN r.data |-> r.data[t] + xc.data[t]])
    ELSE IF IsVector(xc) /\ xc.shape[1] = r.shape[2]
    THEN Matrix(r.shape[1], r.shape[2],
                [i \in 1..r.shape[1], j \in 1..r.shape[2] |-> At(r, i, j) + xc.data[j]])
    ELSE DimensionError

\* Linear(a, b, c): a . b^T + c.
Linear(a, b, c) == Plus(Dot(a, Transpose(b)), c)

\* GemmOp::RunImpl with the node's alpha, beta, trans_a, trans_b.
GemmOp(attr, a, b, c) ==
    IF attr.alpha = 1 /\ attr.beta = 1 /\ ~attr.trans_a /\ attr.trans_b /\ Len(c.shape) = 1
    THEN Linear(a, b, c)
    ELSE IF attr.beta = 0
    THEN Scale(Dot(IF attr.trans_a THEN Transpose(a) ELSE a,
                   IF attr.trans_b THEN Transpose(b) ELSE b),
               attr.alpha)
    ELSE Plus(Scale(Dot(IF attr.trans_a THEN Transpose(a) ELSE a,
                        IF attr.trans_b THEN Transpose(b) ELSE b),
                    attr.alpha),
              Scale(c, attr.beta))

\* Shape: the dims of x as a vector.
ShapeOp(a) == IF a = DimensionError THEN a ELSE Array(<<Len(a.shape)>>, a.shape)

\* Reshape: the same elements under the given dims.
ReshapeOp(a, shape) ==
    IF a = DimensionError \/ shape = DimensionError THEN DimensionError
    ELSE IF NumElements(shape.data) # Len(a.data) THEN DimensionError
    ELSE Array(shape.data, a.data)

\* ReduceSum over axis 0 without keepdims: the column sums of a matrix.
ReduceSumRows(a) ==
    IF ~IsMatrix(a) THEN DimensionError
    ELSE Array(<<a.shape[2]>>,
               [j \in 1..a.shape[2] |-> SumSeq([i \in 1..a.shape[1] |-> At(a, i, j)])])

\* The array Value v holds when the graph runs on the arrays env gives the
\* forward Values.
RECURSIVE Run(_, _, _)
Run(S, env, v) ==
    IF v \in DOMAIN env THEN env[v]
    ELSE IF v = NullV \/ Producer(S, v) = 0 THEN DimensionError
    ELSE IF S.nodes[Producer(S, v)].op = "OnikuxBackpropStackPop"
    THEN Run(S, env, Pushed(S, S.nodes[Producer(S, v)].id))
    ELSE IF S.nodes[Producer(S, v)].op = "Gemm"
    THEN GemmOp(S.nodes[Producer(S, v)].attr,
                Run(S, env, S.nodes[Producer(S, v)].inputs[1]),
                Run(S, env, S.nodes[Producer(S, v)].inputs[2]),
                Run(S, env, S.nodes[Producer(S, v)].inputs[3]))
    ELSE IF S.nodes[Producer(S, v)].op = "Shape"
    THEN ShapeOp(Run(S, env, S.nodes[Producer(S, v)].inputs[1]))
    ELSE IF S.nodes[Producer(S, v)].op = "Reshape"
    THEN ReshapeOp(Run(S, env, S.nodes[Producer(S, v)].inputs[1]),
                   Run(S, env, S.nodes[Producer(S, v)].inputs[2]))
    ELSE IF S.nodes[Producer(S, v)].op = "ReduceSum"
    THEN ReduceSumRows(Run(S, env, S.nodes[Producer(S, v)].inputs[1]))
    ELSE DimensionError

(***************************************************************************)
(* A Gemm node is built, differentiated, and the gradient nodes are run.   *)
(***************************************************************************)
\* (m, k, n): op(A) is m x k, op(B) is k x n, Y is m x n.
GemmDims == {<<1, 2, 3>>, <<2, 3, 1>>}

Alphas == {1, 3}

Betas == {0, 1, 2}

\* The arrays an operand of the given dims ranges over: each unit matrix, and
\* a matrix of pairwise distinct elements.
Operands(rows, cols) ==
    {Matrix(rows, cols, [i \in 1..rows, j \in 1..cols |->
                            IF (i - 1) * cols + j = t THEN 1 ELSE 0]) :
        t \in 1..(rows * cols)}
    \cup {Matrix(rows, cols, [i \in 1..rows, j \in 1..cols |-> (i - 1) * cols + j + 1])}

\* The bias of a Gemm of n columns.
Bias(n) == Array(<<n>>, [j \in 1..n |-> 4 + j])

\* The third operand of a Gemm of m rows and n columns: a vector broadcast over
\* the rows, or a matrix of the output's shape.
Biases(m, n) ==
    {Bias(n), Matrix(m, n, [i \in 1..m, j \in 1..n |-> 4 + (i - 1) * n + j])}

InitGemm ==
    /\ values = <<InputOf(MainGraph, "Float32"), InputOf(MainGraph, "Float32"),
                  InputOf(MainGraph, "Float32")>>
    /\ nodes = <<>>
    /\ graphs = <<[name |-> "main", input_values |-> <<1, 2, 3>>, output_values |-> <<>>]>>
    /\ id_ = 0
    /\ fatal = ""
    /\ setgrads = <<>>
    /\ retains = <<>>
    /\ calls = <<>>
    /\ pass = [phase |-> "build", todo |-> 0]
    /\ num = NoNum

\* The caller builds Y = Gemm(A, B, C) and attaches a gradient to Y.
BuildGemm ==
    /\ pass.phase = "build"
    /\ \E alpha \in Alphas, beta \in Betas, trans_a \in BOOLEAN, trans_b \in BOOLEAN :
          Commit(AddNode(SeededOutput(State, MainGraph, "Float32"), MainGraph, "Gemm",
                         <<1, 2, 3>>, <<Len(values) + 1>>, "forward", 0,
                         GemmAttr(alpha, beta, trans_a, trans_b)))
    /\ pass' = [phase |-> "built", todo |-> 1]
    /\ UNCHANGED num

DifferentiateGemm ==
    /\ pass.phase = "built"
    /\ \E retain_in_stack \in BOOLEAN :
          Commit(AddGradientForNode(State, MainGraph, 1, retain_in_stack))
    /\ pass' = [phase |-> "diff", todo |-> 0]
    /\ UNCHANGED num

\* The arrays of a run: A, B, C and the gradient dY of Y.
GemmEnv(A, B, C, dY) ==
    (nodes[1].inputs[1] :> A) @@ (nodes[1].inputs[2] :> B) @@ (nodes[1].inputs[3] :> C)
       @@ (values[nodes[1].outputs[1]].grad :> dY)

\* The gradient nodes run on arrays of the node's dims.
RunGemmGrad ==
    /\ pass.phase = "diff"
    /\ fatal = ""
    /\ \E dims \in GemmDims :
         \E A \in Operands(IF nodes[1].attr.trans_a THEN dims[2] ELSE dims[1],
                           IF nodes[1].attr.trans_a THEN dims[1] ELSE dims[2]),
            B \in Operands(IF nodes[1].attr.trans_b THEN dims[3] ELSE dims[2],
                           IF nodes[1].attr.trans_b THEN dims[2] ELSE dims[3]),
            C \in Biases(dims[1], dims[3]),
            dY \in Operands(dims[1], dims[3]) :
            num' = [op |-> "GemmGrad", A |-> A, B |-> B, C |-> C, dY |-> dY,
                    dA |-> Run(State, GemmEnv(A, B, C, dY), values[1].grad),
                    dB |-> Run(State, GemmEnv(A, B, C, dY), values[2].grad),
                    dC |-> Run(State, GemmEnv(A, B, C, dY), values[3].grad)]
    /\ pass' = [phase |-> "ran", todo |-> 0]
    /\ UNCHANGED <<values, nodes, graphs, id_, fatal, setgrads, retains, calls>>

NextGemm == BuildGemm \/ DifferentiateGemm \/ RunGemmGrad

SpecGemm == InitGemm /\ [][NextGemm]_vars

(***************************************************************************)
(* C5: the Gemm gradient.                                                  *)
(***************************************************************************)
Op(flag, a) == IF flag THEN Transpose(a) ELSE a

\* dA = alpha * dY * op(B)^T, transposed back when trans_a is set.
ClosedFormA(attr, B, dY) ==
    Op(attr.trans_a, Scale(Dot(dY, Transpose(Op(attr.trans_b, B))), attr.alpha))

\* dB = alpha * op(A)^T * dY, transposed back when trans_b is set.
ClosedFormB(attr, A, dY) ==
    Op(attr.trans_b, Scale(Dot(Transpose(Op(attr.trans_a, A)), dY), attr.alpha))

\* <dY, Y(a1, b1) - Y(a0, b0)> under the forward node's own semantics.
Change(attr, a0, b0, a1, b1, C, dY) ==
    SumSeq([t \in DOMAIN dY.data |->
               dY.data[t] * (GemmOp(attr, a1, b1, C).data[t] - GemmOp(attr, a0, b0, C).data[t])])

Bumped(a, t) == Array(a.shape, [u \in DOMAIN a.data |-> IF u = t THEN a.data[u] + 1 ELSE a.data[u]])

\* The emitted Gemm nodes.
GemmGradNodes == {n \in DOMAIN nodes : nodes[n].op = "Gemm" /\ nodes[n].name = "GemmGrad"}

\* C5: for every forward Gemm node (each transpose flag combination, alpha,
\* beta) and every run, the gradient nodes GemmGradFn emitted compute
\* dA = alpha*dY*op(B)^T and dB = alpha*op(A)^T*dY, each transposed back when
\* the operand's flag is set; these are the derivatives of <dY, Y> in each
\* element of A and of B under GemmOp's forward semantics; and the two emitted
\* Gemm nodes have beta = 0 and give the same result whatever their third
\* input holds.
C5_GemmGradient ==
    num.op = "GemmGrad" =>
       /\ num.dA = ClosedFormA(nodes[1].attr, num.B, num.dY)
       /\ num.dB = ClosedFormB(nodes[1].attr, num.A, num.dY)
       /\ num.dA.shape = num.A.shape
       /\ num.dB.shape = num.B.shape
       /\ \A t \in DOMAIN num.A.data :
             num.dA.data[t] = Change(nodes[1].attr, num.A, num.B, Bumped(num.A, t), num.B,
                                     num.C, num.dY)
       /\ \A t \in DOMAIN num.B.data :
             num.dB.data[t] = Change(nodes[1].attr, num.A, num.B, num.A, Bumped(num.B, t),
                                     num.C, num.dY)
       /\ Cardinality(GemmGradNodes) = 2
       /\ \A n \in GemmGradNodes :
             /\ nodes[n].attr.beta = 0
             /\ nodes[n].attr.alpha = nodes[1].attr.alpha
             /\ \A junk \in {DimensionError, Bias(1), num.dY} :
                   GemmOp(nodes[n].attr,
                          Run(State, GemmEnv(num.A, num.B, num.C, num.dY), nodes[n].inputs[1]),
                          Run(State, GemmEnv(num.A, num.B, num.C, num.dY), nodes[n].inputs[2]),
                          junk)
                     = Run(State, GemmEnv(num.A, num.B, num.C, num.dY), nodes[n].outputs[1])

\* A run of the gradient of a Gemm with both operands transposed and alpha
\* other than 1, on matrices that are not square, under retention.
C5_Witness ==
    /\ num.op = "GemmGrad"
    /\ nodes[1].attr.trans_a /\ nodes[1].attr.trans_b /\ nodes[1].attr.alpha = 3
    /\ num.A.shape = <<2, 1>> /\ num.B.shape = <<3, 2>>
    /\ num.dA # Scale(num.dA, 0)
    /\ num.dB # Scale(num.dB, 0)
    /\ retains # <<>> /\ \A i \in DOMAIN retains : retains[i].on

(***************************************************************************)
(* C14: the gradient of the bias operand of a Gemm.                        *)
(***************************************************************************)
\* <dY, Y(c1) - Y(c0)> under the forward node's own semantics.
BiasChange(attr, A, B, c0, c1, dY) ==
    SumSeq([t \in DOMAIN dY.data |->
               dY.data[t] * (GemmOp(attr, A, B, c1).data[t] - GemmOp(attr, A, B, c0).data[t])])

\* The gradient registered on C is the derivative of <dY, Y> in each element
\* of C: it has C's shape and its element t is the change of <dY, Y> when
\* element t of C grows by one (Y is affine in C).
IsBiasDerivative ==
    /\ num.dC.shape = num.C.shape
    /\ \A t \in DOMAIN num.C.data :
          num.dC.data[t] = BiasChange(nodes[1].attr, num.A, num.B, num.C, Bumped(num.C, t),
                                     num.dY)

\* C14: for every Gemm node and every run, the gradient GemmGradFn registers
\* on the bias input C is the derivative, contracted with dY, of the forward
\* result alpha*op(A)*op(B) + beta*C as GemmOp computes it, for every beta
\* (0, 1 and other values) and for a 1-D bias broadcast over the rows as well
\* as a 2-D bias of the output's shape.
C14_BiasGradient == num.op = "GemmGrad" => IsBiasDerivative

\* C14, what the emitted node computes: the gradient registered on C is the
\* sum of dY over axis 0 whatever beta and the rank of C are, and it is the
\* derivative of the forward result exactly when beta = 1 and C is 1-D.
C14_RowReduction ==
    num.op = "GemmGrad" =>
       /\ num.dC = ReduceSumRows(num.dY)
       /\ IsBiasDerivative <=> (nodes[1].attr.beta = 1 /\ IsVector(num.C))

\* A run of the gradient of a Gemm whose beta is 0: the forward result does
\* not depend on the 1-D bias, and the gradient registered on it is not zero.
C14_Witness ==
    /\ num.op = "GemmGrad"
    /\ nodes[1].attr.beta = 0 /\ IsVector(num.C)
    /\ \A t \in DOMAIN num.C.data :
          BiasChange(nodes[1].attr, num.A, num.B, num.C, Bumped(num.C, t), num.dY) = 0
    /\ num.dC # Scale(num.dC, 0)
    /\ ~IsBiasDerivative

(***************************************************************************)
(* A loop node is built, differentiated, and the instrumented forward loop *)
(* is executed.                                                            *)
(***************************************************************************)
MaxStates == 2

MaxScans == 1

MaxIters == 3

BodyGraph == 2

\* What the body computes from each state.
BodyOps == {"Identity", "Neg", "Mul"}

RECURSIVE AddInputs(_, _, _)
\* n fresh graph inputs of graph g.
AddInputs(S, g, n) ==
    IF n = 0 THEN S
    ELSE AddInputs([S EXCEPT !.values = Append(@, InputOf(g, "Float32")),
                             !.graphs[g].input_values = Append(@, Len(S.values) + 1)],
                   g, n - 1)

\* A forward node of the body writing a fresh graph output.
BodyNode(S, op, inputs) ==
    AddNode([S EXCEPT !.values = Append(@, [g |-> BodyGraph, kind |-> "Output",
                                             dtype |-> "Float32", grad |-> NullV]),
                      !.graphs[BodyGraph].output_values = Append(@, Len(S.values) + 1)],
            BodyGraph, op, inputs, <<Len(S.values) + 1>>, "forward", 0, NoAttr)

RECURSIVE BodyStates(_, _, _, _)
\* The body's state outputs i..n: output i is op of state input i.
BodyStates(S, op, i, n) ==
    IF i > n THEN S
    ELSE BodyStates(BodyNode(S, op, IF op = "Mul"
                                    THEN <<S.graphs[BodyGraph].input_values[i + 2],
                                           S.graphs[BodyGraph].input_values[i + 2]>>
                                    ELSE <<S.graphs[BodyGraph].input_values[i + 2]>>),
                    op, i + 1, n)

RECURSIVE BodyScans(_, _)
\* n scan outputs of the body, each a copy of the first state.
BodyScans(S, n) ==
    IF n = 0 THEN S
    ELSE BodyScans(BodyNode(S, "Identity", <<S.graphs[BodyGraph].input_values[3]>>), n - 1)

RECURSIVE SeededOutputs(_, _, _)
SeededOutputs(S, g, n) ==
    IF n = 0 THEN S ELSE SeededOutputs(SeededOutput(S, g, "Float32"), g, n - 1)

\* The loop node over the main graph's inputs, with seeded outputs.
LoopNode(S, num_states, num_scans, axis) ==
    AddNode(SeededOutputs(S, MainGraph, num_states + num_scans), MainGraph, "Loop",
            S.graphs[MainGraph].input_values,
            [i \in 1..(num_states + num_scans) |-> Len(S.values) + 2 * i - 1],
            "forward", 0, [body |-> BodyGraph, onikux_stack_axis |-> axis])

\* The graphs of a loop of num_states states and num_scans scan outputs: the
\* main graph's inputs (trip count, condition, states), the body (iteration,
\* condition, states -> condition, states, scans) and the loop node.
BuildLoopGraph(S, num_states, num_scans, axis, op) ==
    LoopNode(
      BodyScans(
        BodyStates(
          BodyNode(AddInputs(AddInputs(S, MainGraph, num_states + 2),
                             BodyGraph, num_states + 2),
                   "Identity",
                   <<Len(S.values) + num_states + 4>>),
          op, 1, num_states),
        num_scans),
      num_states, num_scans, axis)

InitLoop ==
    /\ values = <<>>
    /\ nodes = <<>>
    /\ graphs = <<[name |-> "main", input_values |-> <<>>, output_values |-> <<>>],
                  [name |-> "body", input_values |-> <<>>, output_values |-> <<>>]>>
    /\ id_ = 0
    /\ fatal = ""
    /\ setgrads = <<>>
    /\ retains = <<>>
    /\ calls = <<>>
    /\ pass = [phase |-> "build", todo |-> 0, states |-> 0, scans |-> 0]
    /\ num = NoNum

BuildLoop ==
    /\ pass.phase = "build"
    /\ \E num_states \in 1..MaxStates, num_scans \in 0..MaxScans, axis \in {0, 1},
          op \in BodyOps :
          /\ Commit(BuildLoopGraph(State, num_states, num_scans, axis, op))
          /\ pass' = [phase |-> "built", todo |-> num_states + num_scans + 2,
                      states |-> num_states, scans |-> num_scans]
    /\ UNCHANGED num

DifferentiateLoop ==
    /\ pass.phase = "built"
    /\ \E retain_in_stack \in BOOLEAN :
          Commit(AddGradientForNode(State, MainGraph, pass.todo, retain_in_stack))
    /\ pass' = [pass EXCEPT !.phase = "diff"]
    /\ UNCHANGED num

\* The number a Value holds when its graph runs on the numbers env gives.
RECURSIVE Compute(_, _, _)
Compute(S, env, v) ==
    IF v \in DOMAIN env THEN env[v]
    ELSE IF v = NullV \/ Producer(S, v) = 0 THEN 0
    ELSE IF S.nodes[Producer(S, v)].op = "Constant" THEN S.nodes[Producer(S, v)].attr.value
    ELSE IF S.nodes[Producer(S, v)].op = "Identity"
    THEN Compute(S, env, S.nodes[Producer(S, v)].inputs[1])
    ELSE IF S.nodes[Producer(S, v)].op = "Neg"
    THEN 0 - Compute(S, env, S.nodes[Producer(S, v)].inputs[1])
    ELSE IF S.nodes[Producer(S, v)].op = "Add"
    THEN Compute(S, env, S.nodes[Producer(S, v)].inputs[1])
            + Compute(S, env, S.nodes[Producer(S, v)].inputs[2])
    ELSE IF S.nodes[Producer(S, v)].op = "Mul"
    THEN Compute(S, env, S.nodes[Producer(S, v)].inputs[1])
            * Compute(S, env, S.nodes[Producer(S, v)].inputs[2])
    ELSE 0

\* The body's inputs in iteration iter: the iteration number, the condition,
\* and the states, by position.
BodyEnv(S, body, iter, states) ==
    [v \in Range(S.graphs[body].input_values) |->
        IF v = S.graphs[body].input_values[1] THEN iter
        ELSE IF v = S.graphs[body].input_values[2] THEN 1
        ELSE states[(CHOOSE p \in DOMAIN S.graphs[body].input_values :
                        S.graphs[body].input_values[p] = v) - 2]]

RECURSIVE LoopRun(_, _, _, _, _)
\* The states after iterations iter..k-1: each iteration's state is the body's
\* state output of the same position.
LoopRun(S, body, states, iter, k) ==
    IF iter >= k THEN states
    ELSE LoopRun(S, body,
                 [j \in DOMAIN states |->
                     Compute(S, BodyEnv(S, body, iter, states),
                             S.graphs[body].output_values[j + 1])],
                 iter + 1, k)

\* The loop node's state inputs when every input of the main graph holds x0.
InitialStates(S, loop, x0) ==
    [j \in 1..(Len(S.nodes[loop].inputs) - 2) |->
        Compute(S, [v \in Range(S.graphs[MainGraph].input_values) |-> x0],
                S.nodes[loop].inputs[j + 2])]

\* The loop node's outputs after k iterations from the given initial states of
\* the main graph's state inputs.
LoopOp(S, loop, k, x0) ==
    LoopRun(S, S.nodes[loop].attr.body, InitialStates(S, loop, x0), 0, k)

\* The ids of the stack push and pop nodes of graph g.
StackIds(S, g) ==
    {S.nodes[n].id : n \in {m \in DOMAIN S.nodes :
        /\ S.nodes[m].g = g
        /\ S.nodes[m].op \in {"OnikuxBackpropStackPush", "OnikuxBackpropStackPop"}}}

\* The live nodes of graph g with the given op and id.
StackNodes(S, g, op, id) ==
    {n \in DOMAIN S.nodes : /\ S.nodes[n].g = g
                            /\ S.nodes[n].live
                            /\ S.nodes[n].op = op
                            /\ S.nodes[n].id = id}

\* The position of node n among the nodes of set, in node order.
Rank(set, n) == Cardinality({m \in set : m <= n})

\* One iteration's stack pushes: the live push nodes of graph g run in node
\* order, each appending the value of its input to the stack of its id.
RunPushes(S, g, env, stacks) ==
    [id \in DOMAIN stacks |->
        [stack |-> stacks[id].stack
                     \o [i \in 1..Cardinality(StackNodes(S, g, "OnikuxBackpropStackPush", id)) |->
                           Compute(S, env,
                                   S.nodes[CHOOSE n \in StackNodes(S, g, "OnikuxBackpropStackPush", id) :
                                              Rank(StackNodes(S, g, "OnikuxBackpropStackPush", id), n) = i
                                          ].inputs[1])],
         popped |-> stacks[id].popped,
         underflow |-> stacks[id].underflow]]

RECURSIVE LoopStacks(_, _, _, _, _, _)
\* The stacks after iterations iter..k-1 of the forward loop started from the
\* states init: iteration iter pushes from the states iter iterations leave.
LoopStacks(S, body, init, iter, k, stacks) ==
    IF iter >= k THEN stacks
    ELSE LoopStacks(S, body, init, iter + 1, k,
                    RunPushes(S, body,
                              BodyEnv(S, body, iter, LoopRun(S, body, init, 0, iter)),
                              stacks))

\* The loop-reference nodes of the outer graph.
LoopRefs == {n \in DOMAIN nodes : nodes[n].op = "OnikuxLoopRef"}

\* The forward loop executes k iterations, pushing the retained values of each
\* iteration; the loop-reference node then reads its trip count from its
\* first input.
ExecuteLoop ==
    /\ pass.phase = "diff"
    /\ fatal = ""
    /\ \E k \in 0..MaxIters, x0 \in {2, 3} :
          num' = [op |-> "Loop", k |-> k, x0 |-> x0,
                  outputs |-> LoopOp(State, pass.todo, k, x0),
                  trips |-> [n \in LoopRefs |->
                               Compute(State,
                                       [p \in Range(nodes[pass.todo].outputs) |->
                                           LoopOp(State, pass.todo, k, x0)[
                                              CHOOSE q \in DOMAIN nodes[pass.todo].outputs :
                                                 nodes[pass.todo].outputs[q] = p]],
                                       nodes[n].inputs[1])],
                  stacks |-> LoopStacks(State, BodyGraph,
                                        InitialStates(State, pass.todo, x0), 0, k,
                                        [id \in StackIds(State, BodyGraph) |->
                                            [stack |-> <<>>, popped |-> <<>>,
                                             underflow |-> FALSE]])]
    /\ pass' = [pass EXCEPT !.phase = "ran"]
    /\ UNCHANGED <<values, nodes, graphs, id_, fatal, setgrads, retains, calls>>

RECURSIVE Needed(_, _, _)
\* The nodes that run to compute v from the Values given.
Needed(S, v, given) ==
    IF v = NullV \/ v \in given \/ Producer(S, v) = 0 THEN {}
    ELSE {Producer(S, v)}
            \cup UNION {Needed(S, S.nodes[Producer(S, v)].inputs[i], given) :
                           i \in DOMAIN S.nodes[Producer(S, v)].inputs}

\* The nodes loop-reference node n runs in one iteration: those its
\* output_value_names need, given its input_value_names.
RefNeeded(S, n) ==
    UNION {Needed(S, S.nodes[n].attr.output_value_names[i],
                  Range(S.nodes[n].attr.input_value_names)) :
              i \in DOMAIN S.nodes[n].attr.output_value_names}

\* The pop nodes among need that carry the given id.
PopNodes(S, need, id) ==
    {n \in need : S.nodes[n].op = "OnikuxBackpropStackPop" /\ S.nodes[n].id = id}

\* How many of c pops a stack of the given height serves.
Served(c, height) == IF c <= height THEN c ELSE height

\* One reverse iteration's stack pops: the pop nodes among need run in node
\* order, each taking the top of the stack of its id; a pop that finds its
\* stack empty is an underflow.
RunPops(S, need, stacks) ==
    [id \in DOMAIN stacks |->
        [stack |-> SubSeq(stacks[id].stack, 1,
                          Len(stacks[id].stack)
                             - Served(Cardinality(PopNodes(S, need, id)),
                                      Len(stacks[id].stack))),
         popped |-> stacks[id].popped
                      \o [i \in 1..Served(Cardinality(PopNodes(S, need, id)),
                                          Len(stacks[id].stack)) |->
                            stacks[id].stack[Len(stacks[id].stack) - i + 1]],
         underflow |-> stacks[id].underflow
                          \/ Cardinality(PopNodes(S, need, id)) > Len(stacks[id].stack)]]

\* The value pop node m has just popped, given the stacks before and after
\* the iteration's pops (0 when its stack was empty).
PoppedBy(S, need, before, after, m) ==
    IF Rank(PopNodes(S, need, S.nodes[m].id), m) > Len(before[S.nodes[m].id].stack) THEN 0
    ELSE after[S.nodes[m].id].popped[Len(before[S.nodes[m].id].popped)
                                       + Rank(PopNodes(S, need, S.nodes[m].id), m)]

\* What the reversed body reads in iteration iter: the iteration number, the
\* condition and the gradient states by position in input_value_names, and
\* for each pop node the value it has just popped.
RefEnv(S, n, iter, gstates, before, after) ==
    [v \in Range(S.nodes[n].attr.input_value_names) |->
        IF v = S.nodes[n].attr.input_value_names[1] THEN iter
        ELSE IF v = S.nodes[n].attr.input_value_names[2] THEN 1
        ELSE gstates[(CHOOSE p \in DOMAIN S.nodes[n].attr.input_value_names :
                         S.nodes[n].attr.input_value_names[p] = v) - 2]]
    @@ [v \in {S.nodes[m].outputs[1] :
                  m \in {q \in RefNeeded(S, n) :
                            S.nodes[q].op = "OnikuxBackpropStackPop"}} |->
          PoppedBy(S, RefNeeded(S, n), before, after, Producer(S, v))]

\* One iteration of the reversed body: its pops, then the next gradient
\* states, which are the body's outputs after the condition.
RefStep(S, n, gstates, iter, before, after) ==
    [g |-> [i \in DOMAIN gstates |->
               Compute(S, RefEnv(S, n, iter, gstates, before, after),
                       S.nodes[n].attr.output_value_names[i + 1])],
     stacks |-> after]

RECURSIVE LoopRefRun(_, _, _, _, _)
\* Iterations iter..k-1 of loop-reference node n from the gradient states and
\* stacks of st.
LoopRefRun(S, n, st, iter, k) ==
    IF iter >= k THEN st
    ELSE LoopRefRun(S, n,
                    RefStep(S, n, st.g, iter, st.stacks,
                            RunPops(S, RefNeeded(S, n), st.stacks)),
                    iter + 1, k)

\* The loop-reference node executes as many iterations as its first input
\* says, from output gradients that all hold gy0.
ExecuteLoopRef ==
    /\ pass.phase = "ran"
    /\ \E gy0 \in {1, 2} :
          num' = [op |-> "OnikuxLoopRef", k |-> num.k, x0 |-> num.x0,
                  outputs |-> num.outputs, trips |-> num.trips, stacks |-> num.stacks,
                  back |-> [n \in LoopRefs |->
                              LoopRefRun(State, n,
                                         [g |-> [i \in 1..pass.states |-> gy0],
                                          stacks |-> num.stacks],
                                         0, num.trips[n])]]
    /\ pass' = [pass EXCEPT !.phase = "back"]
    /\ UNCHANGED <<values, nodes, graphs, id_, fatal, setgrads, retains, calls>>

NextLoop == BuildLoop \/ DifferentiateLoop \/ ExecuteLoop \/ ExecuteLoopRef

SpecLoop == InitLoop /\ [][NextLoop]_vars

(***************************************************************************)
(* C7, C8, C9: the loop gradient.                                          *)
(***************************************************************************)
\* The loop node has been differentiated and the rule has returned.
LoopDifferentiated == pass.phase \in {"diff", "ran"} /\ fatal = ""

IsConstant(v, g, data) ==
    /\ Producer(State, v) # 0
    /\ nodes[Producer(State, v)].op = "Constant"
    /\ nodes[Producer(State, v)].g = g
    /\ nodes[Producer(State, v)].attr.value = data

\* The loop node and its body carry one more state, at state position
\* num_states + 1: a constant-0 input and a fresh output of the loop node, and
\* an input and an output of the body joined by an add-one node.
Instrumented(loop, body, num_states) ==
    /\ Len(loop.inputs) = num_states + 3
    /\ Len(loop.outputs) = num_states + 1
    /\ SubSeq(loop.inputs, 1, num_states + 2) = graphs[MainGraph].input_values
    /\ \A i \in 1..num_states : values[loop.outputs[i]].grad # NullV
    /\ IsConstant(loop.inputs[num_states + 3], MainGraph, 0)
    /\ Producer(State, loop.outputs[num_states + 1]) = pass.todo
    /\ loop.outputs[num_states + 1] \notin Range(SubSeq(loop.outputs, 1, num_states))
    /\ Len(body.input_values) = num_states + 3
    /\ Len(body.output_values) = num_states + 2
    /\ Producer(State, body.input_values[num_states + 3]) = 0
    /\ Producer(State, body.output_values[num_states + 2]) # 0
    /\ nodes[Producer(State, body.output_values[num_states + 2])].op = "Add"
    /\ Len(nodes[Producer(State, body.output_values[num_states + 2])].inputs) = 2
    /\ nodes[Producer(State, body.output_values[num_states + 2])].inputs[1]
          = body.input_values[num_states + 3]
    /\ IsConstant(nodes[Producer(State, body.output_values[num_states + 2])].inputs[2],
                  BodyGraph, 1)

\* C7: once a loop node of N states is differentiated, the loop node and its
\* body carry the counter state at position N + 1 (a constant-0 input and an
\* extra output of the loop node; an input and an output of the body joined by
\* an add-one node), the loop-reference node's first input is the loop node's
\* extra output, and after the forward loop has executed k iterations that
\* output holds k, which is the trip count the loop-reference node reads.
C7_IterationCount ==
    /\ LoopDifferentiated =>
          /\ Instrumented(nodes[pass.todo], graphs[BodyGraph], pass.states)
          /\ Cardinality(LoopRefs) = 1
          /\ \A n \in LoopRefs :
                nodes[n].inputs[1] = nodes[pass.todo].outputs[pass.states + 1]
    /\ (pass.phase = "ran") =>
          /\ Len(num.outputs) = pass.states + 1
          /\ num.outputs[pass.states + 1] = num.k
          /\ \A n \in LoopRefs : num.trips[n] = num.k

\* The forward loop of a differentiated two-state loop has run three times.
C7_Witness ==
    /\ pass.phase = "ran"
    /\ pass.states = 2
    /\ num.k = 3
    /\ num.outputs[3] = 3
    /\ LoopRefs # {}

RECURSIVE Leaves(_)
\* The Values a term is built over.
Leaves(t) ==
    IF t.op = "val" THEN {t.id}
    ELSE UNION {Leaves(t.args[i]) : i \in DOMAIN t.args}

\* The loop-reference node n, apart from its inputs: it is in the outer graph,
\* names the body, has one output per state, registered by SetGrad as the
\* gradient of the state input of the same position, and its name lists match
\* its inputs and the reversed body's outputs position by position.
LoopRefShape(n, loop, num_states) ==
    /\ nodes[n].g = MainGraph
    /\ nodes[n].attr.body_ref = graphs[BodyGraph].name
    /\ nodes[n].attr.body_ref # ""
    /\ Len(nodes[n].outputs) = num_states
    /\ \A i \in 1..num_states :
          /\ values[loop.inputs[i + 2]].grad = nodes[n].outputs[i]
          /\ \E e \in DOMAIN setgrads :
                /\ setgrads[e].node = pass.todo
                /\ setgrads[e].xi = i + 1
                /\ setgrads[e].x = loop.inputs[i + 2]
                /\ setgrads[e].gx = nodes[n].outputs[i]
    /\ \A i \in 1..2 : values[loop.inputs[i]].grad = NullV
    /\ Len(nodes[n].attr.input_value_names) = Len(nodes[n].inputs)
    /\ Len(nodes[n].attr.output_value_names) = num_states + 1
    /\ \A i \in DOMAIN nodes[n].attr.input_value_names :
          /\ values[nodes[n].attr.input_value_names[i]].g = BodyGraph
          /\ Producer(State, nodes[n].attr.input_value_names[i]) = 0
    /\ \A i \in DOMAIN nodes[n].attr.output_value_names :
          values[nodes[n].attr.output_value_names[i]].g = BodyGraph
    /\ IsConstant(nodes[n].attr.output_value_names[1], BodyGraph, 1)
    /\ values[nodes[n].attr.output_value_names[1]].dtype = "Bool"
    /\ \A i \in 1..num_states :
          Leaves(Expr(State, nodes[n].attr.output_value_names[i + 1], {}))
             \cap Range(nodes[n].attr.input_value_names)
                = {nodes[n].attr.input_value_names[i + 2]}

\* C8 (as the code has it): differentiating a loop node of N states adds
\* exactly one loop-reference node to the outer graph; it names the body; its
\* inputs are, in order, the loop node's iteration-count output, a null
\* Value, and the gradients of the N state outputs -- N + 2 inputs, none of
\* them a final forward state; its N outputs are registered by SetGrad as the
\* gradients of the loop's N state inputs in the same order; its input-name
\* list has one entry per input and its output-name list one entry per
\* reversed-body output, condition first, matching position by position.
C8_LoopRef ==
    LoopDifferentiated =>
       /\ Cardinality(LoopRefs) = 1
       /\ \A n \in LoopRefs :
             /\ LoopRefShape(n, nodes[pass.todo], pass.states)
             /\ Len(nodes[n].inputs) = pass.states + 2
             /\ nodes[n].inputs[1] = nodes[pass.todo].outputs[pass.states + 1]
             /\ values[nodes[n].inputs[2]].kind = "Null"
             /\ \A i \in 1..pass.states :
                   nodes[n].inputs[i + 2] = values[nodes[pass.todo].outputs[i]].grad
             /\ \A i \in 1..pass.states :
                   nodes[pass.todo].outputs[i] \notin Range(nodes[n].inputs)

\* C8 as stated: the one loop-reference node takes the iteration count, the
\* final forward state (the loop node's N state outputs) and the gradient of
\* each state output as inputs, and is otherwise as above.
C8_AsStated ==
    LoopDifferentiated =>
       /\ Cardinality(LoopRefs) = 1
       /\ \A n \in LoopRefs :
             /\ LoopRefShape(n, nodes[pass.todo], pass.states)
             /\ nodes[n].inputs[1] = nodes[pass.todo].outputs[pass.states + 1]
             /\ \A i \in 1..pass.states :
                   /\ nodes[pass.todo].outputs[i] \in Range(nodes[n].inputs)
                   /\ values[nodes[pass.todo].outputs[i]].grad \in Range(nodes[n].inputs)

\* A two-state loop whose body multiplies has been differentiated under
\* retention.
C8_Witness ==
    /\ LoopDifferentiated
    /\ pass.states = 2
    /\ LoopRefs # {}
    /\ \E k \in DOMAIN calls : calls[k].fn = "LoopGradFn" /\ calls[k].retain_in_stack
    /\ \E k \in DOMAIN calls : calls[k].fn = "MulGradFn" /\ calls[k].g = BodyGraph

\* The body has more outputs than the condition and the states.
HasScans ==
    Len(graphs[BodyGraph].output_values) - 1 > Len(nodes[pass.todo].inputs) - 2

\* C9: when the body has scan outputs or the loop node's stack axis is not
\* zero, the loop rule, once invoked, has failed fatally, the graph holds no
\* loop-reference node, and no loop input has a gradient.
C9_Unsupported ==
    (/\ pass.phase = "diff"
     /\ (HasScans \/ pass.scans > 0 \/ nodes[pass.todo].attr.onikux_stack_axis # 0))
       => /\ calls # <<>> /\ calls[1].fn = "LoopGradFn"
          /\ fatal \in {"Not implemented yet: scan outputs", "Not implemented yet: stack axis"}
          /\ LoopRefs = {}
          /\ \A i \in DOMAIN nodes[pass.todo].inputs :
                values[nodes[pass.todo].inputs[i]].grad = NullV
          /\ setgrads = <<>>

\* The rule has refused a loop without scan outputs whose stack axis is 1.
C9_Witness ==
    /\ pass.phase = "diff"
    /\ pass.scans = 0
    /\ nodes[pass.todo].attr.onikux_stack_axis = 1
    /\ fatal = "Not implemented yet: stack axis"

(***************************************************************************)
(* C11: the retained values are replayed in LIFO order.                    *)
(***************************************************************************)
\* The ids of the pops loop-reference node n runs.
ReadIds(n) ==
    {nodes[m].id : m \in {q \in RefNeeded(State, n) :
                             nodes[q].op = "OnikuxBackpropStackPop"}}

\* The value the push of the given id is handed in forward iteration iter.
ForwardValue(id, iter) ==
    Compute(State,
            BodyEnv(State, BodyGraph, iter,
                    LoopRun(State, BodyGraph, InitialStates(State, pass.todo, num.x0),
                            0, iter)),
            Pushed(State, id))

\* C11: after k forward and k reverse iterations of a differentiated loop, the
\* reversed body has run no forward node (every forward value reaches it
\* through a pop), and for each retain id it reads: no pop found its stack
\* empty, the value popped in reverse iteration j is the one pushed under that
\* id in forward iteration k-1-j, and the stack of that id is empty again.
C11_Replay ==
    (pass.phase = "back") =>
       \A n \in LoopRefs :
          /\ num.trips[n] = num.k
          /\ \A m \in RefNeeded(State, n) : nodes[m].name # "forward"
          /\ \A id \in ReadIds(n) :
                /\ ~num.back[n].stacks[id].underflow
                /\ Len(num.back[n].stacks[id].popped) = num.k
                /\ \A j \in 0..(num.k - 1) :
                      num.back[n].stacks[id].popped[j + 1] = ForwardValue(id, num.k - 1 - j)
                /\ num.back[n].stacks[id].stack = <<>>

\* A loop whose body squares its state has run three times forward and three
\* times back, popping a different value in each reverse iteration.
C11_Witness ==
    /\ pass.phase = "back"
    /\ num.k = 3
    /\ \E n \in LoopRefs : \E id \in ReadIds(n) :
          /\ num.back[n].stacks[id].popped = <<num.x0 * num.x0 * num.x0 * num.x0,
                                                num.x0 * num.x0, num.x0>>
          /\ num.stacks[id].stack = <<num.x0, num.x0 * num.x0,
                                       num.x0 * num.x0 * num.x0 * num.x0>>

(***************************************************************************)
(* One node of each registered operator kind is built and differentiated.  *)
(***************************************************************************)
\* The attributes the rules read from the node they differentiate.
NodeAttr(axis, kernel_shape) ==
    [alpha |-> 1, beta |-> 1, trans_a |-> FALSE, trans_b |-> FALSE,
     strides |-> <<1, 1>>, pads |-> <<0, 0>>, kernel_shape |-> kernel_shape,
     axis |-> axis, bias |-> 1, size |-> 1]

\* The nodes the caller builds: every registered kind but Loop, with the
\* registered input and output counts (two or three inputs where Conv's is
\* open, one or five outputs where BatchNormalization's is), over distinct
\* inputs or over one shared input.
RuleShapes ==
    {[op |-> op, nin |-> nin, nout |-> nout, axis |-> axis,
      kernel_shape |-> kernel_shape, shared |-> shared] :
        op \in DOMAIN s_gradient_funcs \ {"Loop"}, nin \in 0..5, nout \in {1, 5},
        axis \in {0, 1}, kernel_shape \in {<<>>, <<3, 3>>}, shared \in BOOLEAN}

\* The shapes of RuleShapes that the registry's arity admits, with the
\* attributes varied only for the kinds whose rule reads them.
Admitted(shape) ==
    /\ IF s_gradient_funcs[shape.op].num_inputs >= 0
       THEN shape.nin = s_gradient_funcs[shape.op].num_inputs
       ELSE shape.nin \in {2, 3}
    /\ IF s_gradient_funcs[shape.op].num_outputs >= 0
       THEN shape.nout = s_gradient_funcs[shape.op].num_outputs
       ELSE TRUE
    /\ shape.op \notin {"LogSoftmax", "Softmax", "OnikuxSequenceStack"} => shape.axis = 1
    /\ shape.op # "Conv" => shape.kernel_shape = <<3, 3>>
    /\ shape.nin < 2 => ~shape.shared

\* The forward node of the given shape over fresh graph inputs, its outputs
\* carrying the gradients the caller attached.
BuildRuleNode(S, shape) ==
    AddNode(SeededOutputs(AddInputs(S, MainGraph, shape.nin), MainGraph, shape.nout),
            MainGraph, shape.op,
            [i \in 1..shape.nin |-> IF shape.shared THEN Len(S.values) + 1
                                    ELSE Len(S.values) + i],
            [i \in 1..shape.nout |-> Len(S.values) + shape.nin + 2 * i - 1],
            "forward", 0, NodeAttr(shape.axis, shape.kernel_shape))

BuildOp ==
    /\ pass.phase = "build"
    /\ \E shape \in {sh \in RuleShapes : Admitted(sh)} :
          /\ Commit(BuildRuleNode(State, shape))
          /\ pass' = [phase |-> "built", todo |-> 1, states |-> 0, scans |-> 0]
    /\ UNCHANGED num

NextRules == BuildOp \/ BuildLoop \/ DifferentiateLoop

SpecRules == InitLoop /\ [][NextRules]_vars

(***************************************************************************)
(* C12: every differentiable input receives a gradient.                    *)
(***************************************************************************)
\* The positions of the inputs of a node of the given kind and input count
\* that are differentiable.
DifferentiableInputs(op, nin) ==
    CASE op \in {"Add", "Sub", "Mul", "Div", "OnikuxSequenceAppend"} -> {1, 2}
      [] op \in {"Neg", "Exp", "Sigmoid", "Relu", "Sqrt", "Tanh", "Identity", "Dropout",
                 "LRN", "ReduceSum", "ReduceMean", "MaxPool", "AveragePool",
                 "LogSoftmax", "Softmax", "OnikuxSequenceStack",
                 "Reshape", "OnikuxSelectItem"} -> {1}
      [] op = "Gemm" -> {1, 2, 3}
      [] op = "Conv" -> 1..nin
      [] op = "BatchNormalization" -> 1..5
      [] op = "Loop" -> 3..nin
      [] op \in {"Greater", "Constant"} -> {}

\* The step differentiates the node pass.todo and AddGradientForNode returns.
ReturnsNormally ==
    /\ pass.phase = "built"
    /\ pass'.phase = "diff"
    /\ fatal' = ""

\* C12: when AddGradientForNode returns normally for a node whose outputs
\* carry gradients, then for the no-op kinds (Greater, Constant) no gradient
\* is set and the graph is unchanged, and for every other registered kind
\* each differentiable input has a non-null gradient afterwards while an
\* input Value that is no differentiable input (the shape of Reshape, the
\* index of select-item, the two control inputs of a loop) has none; the
\* gradients of inputs 3 and 4 of a batch normalization over distinct inputs
\* are one constant zero.
C12_EveryInputHasGradient ==
    [][ReturnsNormally =>
          /\ nodes[pass.todo].op \in DOMAIN s_gradient_funcs
          /\ nodes[pass.todo].op \in {"Greater", "Constant"} =>
                /\ UNCHANGED <<values, nodes, graphs, id_, setgrads, retains>>
                /\ \A i \in DOMAIN nodes[pass.todo].inputs :
                      values'[nodes[pass.todo].inputs[i]].grad = NullV
          /\ \A i \in DifferentiableInputs(nodes[pass.todo].op,
                                           Len(nodes[pass.todo].inputs)) :
                values'[nodes[pass.todo].inputs[i]].grad # NullV
          /\ \A i \in DOMAIN nodes[pass.todo].inputs :
                (nodes[pass.todo].inputs[i]
                    \notin {nodes[pass.todo].inputs[j] :
                               j \in DifferentiableInputs(nodes[pass.todo].op,
                                                          Len(nodes[pass.todo].inputs))})
                   => values'[nodes[pass.todo].inputs[i]].grad = NullV
          /\ (nodes[pass.todo].op = "BatchNormalization"
                /\ nodes[pass.todo].inputs[4] # nodes[pass.todo].inputs[5]) =>
                /\ values'[nodes[pass.todo].inputs[4]].grad
                      = values'[nodes[pass.todo].inputs[5]].grad
                /\ IsConstant(values[nodes[pass.todo].inputs[4]].grad, MainGraph, 0)'
      ]_vars

\* A batch normalization over five distinct inputs has been differentiated
\* under retention, and each of its inputs carries a gradient.
C12_Witness ==
    /\ pass.phase = "diff"
    /\ fatal = ""
    /\ Len(nodes) >= 1
    /\ nodes[1].op = "BatchNormalization"
    /\ Cardinality(Range(nodes[1].inputs)) = 5
    /\ \A i \in 1..5 : values[nodes[1].inputs[i]].grad # NullV
    /\ calls # <<>> /\ calls[1].retain_in_stack

(***************************************************************************)
(* Simplify (simplifier): every live Sum node of the graph is rewritten    *)
(* into a chain of binary Add nodes and an Ident node.                     *)
(***************************************************************************)
\* Graph::DetachNode: the node leaves the live set; its Values stay.
DetachNode(S, node) ==
    IF S.fatal # "" THEN S ELSE [S EXCEPT !.nodes[node].live = FALSE]

\* Graph::GetLiveNodes: the live nodes of graph g when it is called.
GetLiveNodes(S, g) == {n \in DOMAIN S.nodes : S.nodes[n].g = g /\ S.nodes[n].live}

RECURSIVE SumChain(_, _, _, _, _)
\* The for loop of RemoveSum from index i on, v being the running Value, then
\* the Ident node onto the Sum's outputs and the detaching of the Sum.
SumChain(S, g, node, i, v) ==
    IF i >= Len(S.nodes[node].inputs)
    THEN DetachNode(AddNode(S, g, "Ident", <<v>>, S.nodes[node].outputs, "", 0, NoAttr),
                    node)
    ELSE SumChain(AddNode(AddValue(S, g, "Temp", "Unknown"), g, "Add",
                          <<v, S.nodes[node].inputs[i + 1]>>, <<Len(S.values) + 1>>,
                          "", 0, NoAttr),
                  g, node, i + 1, Len(S.values) + 1)

\* The mutant of RemoveSumNode: the chain starts after the second input.
RemoveSumNodeSkipping(S, g, node, ub) ==
    IF S.fatal # "" \/ S.nodes[node].op # "Sum" THEN S
    ELSE IF Len(S.nodes[node].outputs) # 1 THEN Check(S, FALSE, "CHECK_EQ outputs")
    ELSE IF S.nodes[node].inputs = <<>>
    THEN IF ub < 0 THEN Check(S, FALSE, "inputs()[0] of an empty vector")
         ELSE SumChain(S, g, node, 1, ub)
    ELSE SumChain(S, g, node, 2, S.nodes[node].inputs[1])

\* The body of RemoveSum's loop for one node of the snapshot.  A Sum without
\* inputs reads inputs()[0] of an empty vector: the read crashes (ub < 0) or
\* yields some pointer (ub, null or a Value).
RemoveSumNode(S, g, node, ub) ==
    IF S.fatal # "" \/ S.nodes[node].op # "Sum" THEN S
    ELSE IF Len(S.nodes[node].outputs) # 1 THEN Check(S, FALSE, "CHECK_EQ outputs")
    ELSE IF S.nodes[node].inputs = <<>>
    THEN IF ub < 0 THEN Check(S, FALSE, "inputs()[0] of an empty vector")
         ELSE SumChain(S, g, node, 1, ub)
    ELSE SumChain(S, g, node, 1, S.nodes[node].inputs[1])

RECURSIVE RemoveSumFrom(_, _, _, _, _)
\* RemoveSum's loop over the snapshot live, from node n on.
RemoveSumFrom(S, g, live, n, ub) ==
    IF \A m \in live : m < n THEN S
    ELSE RemoveSumFrom(IF n \in live THEN RemoveSumNode(S, g, n, ub) ELSE S,
                       g, live, n + 1, ub)

RemoveSum(S, g, ub) == RemoveSumFrom(S, g, GetLiveNodes(S, g), 1, ub)

Simplify(S, g, ub) == RemoveSum(S, g, ub)

MaxSums == 2

MaxSumInputs == 3

\* The sequences over set of length at most n.
Seqs(set, n) == UNION {[1..k -> set] : k \in 0..n}

\* The nodes the caller builds: Sum nodes of 0..MaxSumInputs inputs drawn
\* from the graph inputs, Sum nodes over the previous node's output, a Sum
\* with two outputs, and nodes of other kinds.
SumShapes ==
    {Shape("Sum", ins, 1) : ins \in Seqs({"a", "b"}, MaxSumInputs)}
    \cup {Shape("Sum", <<"prev">> \o ins, 1) : ins \in Seqs({"a"}, MaxSumInputs - 1)}
    \cup {Shape("Sum", <<"a", "b">>, 2), Shape("Neg", <<"a">>, 1),
          Shape("Neg", <<"prev">>, 1), Shape("Add", <<"prev", "b">>, 1)}

\* The forward node of the given shape over fresh outputs.
BuildSumNode(S, g, shape) ==
    AddNode(IF shape.nouts = 2
            THEN AddValue(AddValue(S, g, "Temp", "Float32"), g, "Temp", "Float32")
            ELSE AddValue(S, g, "Temp", "Float32"),
            g, shape.op, [i \in DOMAIN shape.ins |-> InputValue(S, g, shape.ins[i])],
            [i \in 1..shape.nouts |-> Len(S.values) + i], "forward", 0, NoAttr)

InitSimplify ==
    /\ values = <<InputOf(MainGraph, "Float32"), InputOf(MainGraph, "Float32")>>
    /\ nodes = <<>>
    /\ graphs = <<[name |-> "main", input_values |-> <<1, 2>>, output_values |-> <<>>]>>
    /\ id_ = 0
    /\ fatal = ""
    /\ setgrads = <<>>
    /\ retains = <<>>
    /\ calls = <<>>
    /\ pass = [phase |-> "build", todo |-> 0]
    /\ num = NoNum

BuildSum ==
    /\ pass.phase = "build"
    /\ pass.todo < MaxSums
    /\ \E shape \in SumShapes : Commit(BuildSumNode(State, MainGraph, shape))
    /\ pass' = [pass EXCEPT !.todo = @ + 1]
    /\ UNCHANGED num

\* The caller simplifies the graph.
SimplifyGraph ==
    /\ pass.phase = "build"
    /\ pass.todo >= 1
    /\ \E ub \in IF \E n \in DOMAIN nodes : nodes[n].op = "Sum" /\ nodes[n].inputs = <<>>
                 THEN -1..Len(values) ELSE {0} :
          Commit(Simplify(State, MainGraph, ub))
    /\ pass' = [pass EXCEPT !.phase = "simplified"]
    /\ UNCHANGED num

NextSimplify == BuildSum \/ SimplifyGraph

SpecSimplify == InitSimplify /\ [][NextSimplify]_vars

(***************************************************************************)
(* C13: Simplify replaces each Sum by a chain of Adds and an Ident.        *)
(***************************************************************************)
\* The live node writing v in state S, 0 when none does.
LiveProducer(S, v) ==
    IF \E n \in DOMAIN S.nodes : S.nodes[n].live /\ v \in Range(S.nodes[n].outputs)
    THEN CHOOSE n \in DOMAIN S.nodes : S.nodes[n].live /\ v \in Range(S.nodes[n].outputs)
    ELSE 0

RECURSIVE Denotes(_, _, _)
\* The number v holds when the live nodes of S run on the numbers env gives
\* the graph inputs.
Denotes(S, env, v) ==
    IF v \in DOMAIN env THEN env[v]
    ELSE IF v = NullV \/ LiveProducer(S, v) = 0 THEN 0
    ELSE IF S.nodes[LiveProducer(S, v)].op \in {"Sum", "Add"}
    THEN SumSeq([i \in DOMAIN S.nodes[LiveProducer(S, v)].inputs |->
                    Denotes(S, env, S.nodes[LiveProducer(S, v)].inputs[i])])
    ELSE IF S.nodes[LiveProducer(S, v)].op = "Ident"
    THEN Denotes(S, env, S.nodes[LiveProducer(S, v)].inputs[1])
    ELSE IF S.nodes[LiveProducer(S, v)].op = "Neg"
    THEN 0 - Denotes(S, env, S.nodes[LiveProducer(S, v)].inputs[1])
    ELSE 0

RECURSIVE IsChain(_, _, _, _, _)
\* v is ((ins[1] + ins[2]) + ...) + ins[n]: ins[1] itself when n = 1, else a
\* Value made after the first fresh Values, written by one live Add node
\* made after the first made nodes, of a chain over n - 1 inputs and ins[n].
IsChain(S, v, ins, n, made) ==
    IF n = 1 THEN v = ins[1]
    ELSE /\ v > made.values
         /\ Cardinality({m \in DOMAIN S.nodes : v \in Range(S.nodes[m].outputs)}) = 1
         /\ LiveProducer(S, v) > made.nodes
         /\ S.nodes[LiveProducer(S, v)].op = "Add"
         /\ S.nodes[LiveProducer(S, v)].outputs = <<v>>
         /\ Len(S.nodes[LiveProducer(S, v)].inputs) = 2
         /\ S.nodes[LiveProducer(S, v)].inputs[2] = ins[n]
         /\ IsChain(S, S.nodes[LiveProducer(S, v)].inputs[1], ins, n - 1, made)

\* The step runs Simplify and Simplify returns.
Simplifies ==
    /\ pass.phase = "build"
    /\ pass'.phase = "simplified"
    /\ fatal' = ""

\* What Simplify owes, S being the graph before it and T the graph after it.
Rewritten(S, T) ==
    /\ \A n \in DOMAIN T.nodes : T.nodes[n].live => T.nodes[n].op # "Sum"
    /\ Len(T.nodes) = Len(S.nodes)
          + SumSeq([n \in DOMAIN S.nodes |->
                      IF S.nodes[n].op # "Sum" THEN 0
                      ELSE IF S.nodes[n].inputs = <<>> THEN 1
                      ELSE Len(S.nodes[n].inputs)])
    /\ SubSeq(T.values, 1, Len(S.values)) = S.values
    /\ \A n \in DOMAIN S.nodes :
          IF S.nodes[n].op # "Sum" THEN T.nodes[n] = S.nodes[n]
          ELSE /\ T.nodes[n] = [S.nodes[n] EXCEPT !.live = FALSE]
               /\ S.nodes[n].inputs # <<>> =>
                     /\ LiveProducer(T, S.nodes[n].outputs[1]) > Len(S.nodes)
                     /\ T.nodes[LiveProducer(T, S.nodes[n].outputs[1])].op = "Ident"
                     /\ T.nodes[LiveProducer(T, S.nodes[n].outputs[1])].outputs
                           = S.nodes[n].outputs
                     /\ Len(T.nodes[LiveProducer(T, S.nodes[n].outputs[1])].inputs) = 1
                     /\ IsChain(T, T.nodes[LiveProducer(T, S.nodes[n].outputs[1])].inputs[1],
                                S.nodes[n].inputs, Len(S.nodes[n].inputs),
                                [values |-> Len(S.values), nodes |-> Len(S.nodes)])
    /\ (\A n \in DOMAIN S.nodes : S.nodes[n].op = "Sum" => S.nodes[n].inputs # <<>>) =>
          \A a \in {2, 3}, v \in DOMAIN S.values :
             Denotes(T, (1 :> a) @@ (2 :> 7), v) = Denotes(S, (1 :> a) @@ (2 :> 7), v)

\* C13: when Simplify returns, no live Sum node remains; each Sum node that
\* had n >= 1 inputs is detached and otherwise as it was, and its output is
\* written by one live Ident node whose input is the left-to-right chain of
\* n - 1 fresh Add nodes over the Sum's inputs in their order; the graph has
\* gained n nodes per such Sum and nothing else; the nodes of other kinds and
\* the Values that existed are as they were; and when every Sum had an input,
\* each Value that existed denotes the same number as before.
C13_SumRewritten == [][Simplifies => Rewritten(State, State')]_vars

\* Two Sum nodes, the second of three inputs over the first one's output,
\* have been rewritten.
C13_Witness ==
    /\ pass.phase = "simplified"
    /\ fatal = ""
    /\ Len(nodes) >= 2
    /\ nodes[1].op = "Sum" /\ ~nodes[1].live /\ Len(nodes[1].inputs) = 2
    /\ nodes[2].op = "Sum" /\ ~nodes[2].live /\ Len(nodes[2].inputs) = 3
    /\ nodes[2].inputs[1] = nodes[1].outputs[1]
    /\ Len(nodes) = 7

====
